---- MODULE Spec2Model ----
EXTENDS Integers, Sequences, FiniteSets, TLC

(***************************************************************************)
(* Gomu: a facade that fans make/get/take/cancel out over marketplace      *)
(* adapters (opensea, trader), the shared validators, the Trader fee       *)
(* calculator, and the earlier CommerceSdk facade.                         *)
(***************************************************************************)

VARIABLES
  chainId,       \* Gomu: the chain the facade was constructed for
  marketplaces,  \* Gomu.marketplaces: registered adapter names, in insertion order
  instantiated,  \* the adapters whose constructor ran in Gomu's constructor
  call,          \* the facade operation in flight and its arguments
  tasks,         \* the adapter names handed to Promise.all, in array order
  promise,       \* per adapter: the promise returned by the adapter's method
  slot,          \* per adapter: the promise of the facade's map callback
  invoked,       \* per adapter and method: invocations during this call
  contacted,     \* per adapter: the adapter reached its marketplace (network)
  outcome,       \* the promise the facade operation returned to the caller
  completed,     \* the adapters whose call has settled, in completion order
  fees,          \* calculateFees: the fee list argument
  amount,        \* calculateFees: the base amount argument
  feeResult,     \* calculateFees: what the call returned or threw
  traderOrder,   \* Trader.makeOrder with fees: how the call ended, the order built
  sdk,           \* CommerceSdk: the fields its constructor set
  csOp,          \* CommerceSdk: the last operation called and its platform
  csCalls,       \* CommerceSdk: the platform SDK methods that operation called
  csOutcome,     \* CommerceSdk: how that operation ended
  csApproval,    \* CommerceSdk: where its own approval stood when createOrder was invoked
  params,        \* an adapter called directly: the MakeOrderParams it is given
  result,        \* per adapter class: how its makeOrder began
  request,       \* an adapter operation called directly: adapter, method, arguments
  trace,         \* the marketplace, signer and chain interactions of that operation
  response       \* what that operation returned or threw

gomuVars == <<chainId, marketplaces, instantiated, call, tasks, promise, slot,
              invoked, contacted, outcome, completed>>

feeVars == <<fees, amount, feeResult, traderOrder>>

commerceVars == <<sdk, csOp, csCalls, csOutcome, csApproval>>

adapterVars == <<params, result>>

opVars == <<request, trace, response>>

vars == <<gomuVars, feeVars, commerceVars, adapterVars, opVars>>

-----------------------------------------------------------------------------
(* Bounds of the model *)

MaxAssets == 2
MaxOrders == 2
MaxFees == 2

-----------------------------------------------------------------------------
(* Data model *)

AssetTypes == {"ERC20", "ERC721", "ERC1155"}

MarketplaceNames == {"opensea", "trader", "looksrare"}

\* the optional members of interface Marketplaces, in the order the
\* constructor assigns them (Object.entries follows insertion order)
AdapterOrder == <<"opensea", "trader">>

Adapters == {AdapterOrder[i] : i \in 1..Len(AdapterOrder)}

Methods == {"makeOrder", "getOrders", "takeOrder", "cancelOrder"}

Chains == {1, 3, 4, 5}

openseaSupportedChainIds == {1, 4}

traderSupportedChainIds == {1, 3}

OrderIds == 1..MaxOrders

RECURSIVE SeqsUpTo(_, _)
SeqsUpTo(S, n) ==
  IF n = 0 THEN {<<>>}
  ELSE LET shorter == SeqsUpTo(S, n - 1)
       IN  shorter \cup {Append(s, x) : s \in {t \in shorter : Len(t) = n - 1}, x \in S}

AssetLists == SeqsUpTo([type : AssetTypes], MaxAssets)

\* what an adapter's getOrders can resolve to: a list of distinct native orders
OrderLists == {s \in SeqsUpTo(OrderIds, MaxOrders) :
                 \A i, j \in 1..Len(s) : i # j => s[i] # s[j]}

\* What a catch clause can receive: an Error instance, an object that is not
\* an Error but has a message property, or a bare string. text is what
\* String(value) gives.
NoError == [kind |-> "none", hasMessage |-> FALSE, message |-> "", text |-> ""]

ErrorOf(msg) ==
  [kind |-> "Error", hasMessage |-> TRUE, message |-> msg, text |-> "Error"]

PlainObject(msg) ==
  [kind |-> "object", hasMessage |-> TRUE, message |-> msg,
   text |-> "[object Object]"]

ThrownString(str) ==
  [kind |-> "string", hasMessage |-> FALSE, message |-> "", text |-> str]

\* what an adapter's marketplace call can reject with
AdapterErrors ==
  {ErrorOf("rate limited"), PlainObject("denied"), ThrownString("timeout")}

InSeq(x, s) == \E i \in 1..Len(s) : s[i] = x

-----------------------------------------------------------------------------
(* Adapters *)

supportsChainId(m, c) ==
  IF m = "opensea" THEN c \in openseaSupportedChainIds
  ELSE c \in traderSupportedChainIds

Ok == "ok"

assertAssetsIsNotEmpty(assets, prefix) ==
  IF Len(assets) = 0
  THEN (IF prefix = "maker" THEN "maker assets cannot be empty"
        ELSE "taker assets cannot be empty")
  ELSE Ok

assertAssetsIsNotBundledSkipped(assets) == Ok

assertAssetsIsNotBundled(assets) ==
  IF Len(assets) > 1 THEN "bundled assets are not supported" ELSE Ok

assertAssetsIsNotErc20AndErc20Skipped(makerAsset, takerAsset) == Ok

assertAssetsIsNotErc20AndErc20(makerAsset, takerAsset) ==
  IF makerAsset.type = "ERC20" /\ takerAsset.type = "ERC20"
  THEN "ERC20 <-> ERC20 is not supported"
  ELSE Ok

assertAssetsIsNotErc721Erc1155AndErc721Erc115SameKind(makerAsset, takerAsset) ==
  IF /\ makerAsset.type \in {"ERC721", "ERC1155"}
     /\ takerAsset.type = makerAsset.type
  THEN "ERC712/ERC1155 <-> ERC712/ERC1155 is not supported"
  ELSE Ok

assertAssetsIsNotErc721Erc1155AndErc721Erc115(makerAsset, takerAsset) ==
  IF /\ makerAsset.type \in {"ERC721", "ERC1155"}
     /\ takerAsset.type \in {"ERC721", "ERC1155"}
  THEN "ERC712/ERC1155 <-> ERC712/ERC1155 is not supported"
  ELSE Ok

\* The synchronous prefix of an adapter's makeOrder: the validators in the
\* order the adapter calls them; the first failure is the thrown message.
adapterValidateBundledFirst(makerAssets, takerAssets) ==
  IF assertAssetsIsNotBundled(makerAssets) # Ok
    THEN assertAssetsIsNotBundled(makerAssets)
  ELSE IF assertAssetsIsNotBundled(takerAssets) # Ok
    THEN assertAssetsIsNotBundled(takerAssets)
  ELSE IF assertAssetsIsNotEmpty(makerAssets, "maker") # Ok
    THEN assertAssetsIsNotEmpty(makerAssets, "maker")
  ELSE IF assertAssetsIsNotEmpty(takerAssets, "taker") # Ok
    THEN assertAssetsIsNotEmpty(takerAssets, "taker")
  ELSE IF assertAssetsIsNotErc20AndErc20(makerAssets[1], takerAssets[1]) # Ok
    THEN assertAssetsIsNotErc20AndErc20(makerAssets[1], takerAssets[1])
  ELSE assertAssetsIsNotErc721Erc1155AndErc721Erc115(makerAssets[1], takerAssets[1])

adapterValidate(makerAssets, takerAssets) ==
  IF assertAssetsIsNotEmpty(makerAssets, "maker") # Ok
    THEN assertAssetsIsNotEmpty(makerAssets, "maker")
  ELSE IF assertAssetsIsNotEmpty(takerAssets, "taker") # Ok
    THEN assertAssetsIsNotEmpty(takerAssets, "taker")
  ELSE IF assertAssetsIsNotBundled(makerAssets) # Ok
    THEN assertAssetsIsNotBundled(makerAssets)
  ELSE IF assertAssetsIsNotBundled(takerAssets) # Ok
    THEN assertAssetsIsNotBundled(takerAssets)
  ELSE IF assertAssetsIsNotErc20AndErc20(makerAssets[1], takerAssets[1]) # Ok
    THEN assertAssetsIsNotErc20AndErc20(makerAssets[1], takerAssets[1])
  ELSE assertAssetsIsNotErc721Erc1155AndErc721Erc115(makerAssets[1], takerAssets[1])

\* Opensea.makeOrder up to its first await: validators, then the sell/buy
\* branch; anything else throws "unsupported operation".
openseaMakeOrderSyncAnyNonFungible(makerAssets, takerAssets) ==
  LET v == adapterValidate(makerAssets, takerAssets) IN
  IF v # Ok THEN v
  ELSE IF \/ makerAssets[1].type = "ERC20"
          \/ takerAssets[1].type = "ERC20"
       THEN Ok
       ELSE "unsupported operation"

openseaMakeOrderSync(makerAssets, takerAssets) ==
  LET v == adapterValidate(makerAssets, takerAssets) IN
  IF v # Ok THEN v
  ELSE IF \/ /\ makerAssets[1].type \in {"ERC721", "ERC1155"}
             /\ takerAssets[1].type = "ERC20"
          \/ /\ makerAssets[1].type = "ERC20"
             /\ takerAssets[1].type \in {"ERC721", "ERC1155"}
       THEN Ok
       ELSE "unsupported operation"

\* Trader.makeOrder up to its first await: validators, then the asset
\* conversion (total on the three asset types).
traderMakeOrderSync(makerAssets, takerAssets) ==
  adapterValidate(makerAssets, takerAssets)

adapterMakeOrderSync(m, makerAssets, takerAssets) ==
  IF m = "opensea" THEN openseaMakeOrderSync(makerAssets, takerAssets)
  ELSE traderMakeOrderSync(makerAssets, takerAssets)

\* Trader.getNormalizedOrder: the native order's nonce becomes the id
getNormalizedOrder(m, order) == [id |-> order, marketplace |-> m]

-----------------------------------------------------------------------------
(* Promises *)

NoPromise == [state |-> "none", value |-> <<>>, err |-> NoError]
Pending == [state |-> "pending", value |-> <<>>, err |-> NoError]
Fulfilled(v) == [state |-> "fulfilled", value |-> v, err |-> NoError]
Rejected(e) == [state |-> "rejected", value |-> <<>>, err |-> e]

NoSlot == [state |-> "none", entries |-> <<>>, err |-> NoError]
Waiting == [state |-> "waiting", entries |-> <<>>, err |-> NoError]
SlotFulfilled(es) == [state |-> "fulfilled", entries |-> es, err |-> NoError]
SlotRejected(e) == [state |-> "rejected", entries |-> <<>>, err |-> e]

NoOutcome == [state |-> "none", entries |-> <<>>, err |-> NoError]
OutcomePending == [state |-> "pending", entries |-> <<>>, err |-> NoError]
Resolved(es) == [state |-> "resolved", entries |-> es, err |-> NoError]
OutcomeRejected(e) == [state |-> "rejected", entries |-> <<>>, err |-> e]

NoOrder == [marketplaceName |-> "opensea", hasOrder |-> FALSE, marketplaceOrder |-> 0]

\* what makeSellOrder and makeBuyOrder pass on untouched (...params): taker
\* (given or not) and the selected marketplaces
NoRest == [taker |-> FALSE, marketplacesGiven |-> FALSE, marketplaces |-> {}]

Idle ==
  [op |-> "idle", makerAssets |-> <<>>, takerAssets |-> <<>>, taker |-> FALSE,
   marketplacesGiven |-> FALSE, marketplaces |-> {},
   filter |-> FALSE, order |-> NoOrder,
   via |-> "", assets |-> <<>>, rest |-> NoRest]

NoInvocations == [m \in Adapters |-> [k \in Methods |-> 0]]

RECURSIVE Flat(_)
Flat(ss) == IF Len(ss) = 0 THEN <<>> ELSE Head(ss) \o Flat(Tail(ss))

\* Promise.all over the callbacks' promises: the values in array order
PromiseAllValues(ts, sl) == Flat([i \in 1..Len(ts) |-> sl[ts[i]].entries])

-----------------------------------------------------------------------------
(* Gomu *)

GomuConstructorUnchecked(c) == AdapterOrder

GomuConstructor(c) == SelectSeq(AdapterOrder, LAMBDA m : supportsChainId(m, c))

InRegistry(m) == InSeq(m, marketplaces)

\* the filter of Gomu.makeOrder
makeOrderSelectedAll(name, given, names) == name \in Adapters

makeOrderSelected(name, given, names) ==
  IF given /\ Cardinality(names) > 0 /\ name \notin names
  THEN FALSE
  ELSE name \in Adapters

\* the error field Gomu.makeOrder's catch clause builds:
\* err instanceof Error ? err.message : String(err)
catchError(err) == IF err.kind = "Error" THEN err.message ELSE err.text

\* the adapters whose method the fan-out's map() has called by the time the
\* facade first suspends: map() runs each async callback up to its first
\* await, which is after the call of the adapter's method
FanOutIssuedFirstOnly(ts) == IF Len(ts) = 0 THEN {} ELSE {ts[1]}

FanOutIssued(ts) == {ts[i] : i \in 1..Len(ts)}

\* the entry Gomu.makeOrder's callback returns for an adapter's outcome
makeOrderEntryNoCatch(m, p) ==
  IF p.state = "fulfilled"
  THEN SlotFulfilled(<<[marketplaceName |-> m,
                        marketplaceOrder |-> p.value[1],
                        normalizedOrder |-> getNormalizedOrder(m, p.value[1])]>>)
  ELSE SlotRejected(p.err)

makeOrderEntry(m, p) ==
  IF p.state = "fulfilled"
  THEN SlotFulfilled(<<[marketplaceName |-> m,
                        marketplaceOrder |-> p.value[1],
                        normalizedOrder |-> getNormalizedOrder(m, p.value[1])]>>)
  ELSE SlotFulfilled(<<[marketplaceName |-> m, error |-> catchError(p.err)]>>)

\* the value Gomu.getOrders's callback returns for an adapter's outcome
getOrdersEntriesUntagged(m, p) ==
  IF p.state = "fulfilled"
  THEN SlotFulfilled([i \in 1..Len(p.value) |->
                        [marketplaceName |-> AdapterOrder[1],
                         marketplaceOrder |-> p.value[i],
                         normalizedOrder |-> getNormalizedOrder(m, p.value[i])]])
  ELSE SlotRejected(p.err)

getOrdersEntries(m, p) ==
  IF p.state = "fulfilled"
  THEN SlotFulfilled([i \in 1..Len(p.value) |->
                        [marketplaceName |-> m,
                         marketplaceOrder |-> p.value[i],
                         normalizedOrder |-> getNormalizedOrder(m, p.value[i])]])
  ELSE SlotRejected(p.err)

\* the state of the Promise.all join once slot m has settled as s
JoinOnFirstFulfilled(m, s) ==
  LET sl == [slot EXCEPT ![m] = s] IN
  IF outcome.state # "pending" THEN outcome
  ELSE IF s.state = "rejected" THEN OutcomeRejected(s.err)
  ELSE Resolved(PromiseAllValues(<<m>>, sl))

JoinInCompletionOrder(m, s) ==
  LET sl == [slot EXCEPT ![m] = s] IN
  IF outcome.state # "pending" THEN outcome
  ELSE IF s.state = "rejected" THEN OutcomeRejected(s.err)
  ELSE IF \A i \in 1..Len(tasks) : sl[tasks[i]].state = "fulfilled"
       THEN Resolved(PromiseAllValues(Append(completed, m), sl))
       ELSE outcome

Join(m, s) ==
  LET sl == [slot EXCEPT ![m] = s] IN
  IF outcome.state # "pending" THEN outcome
  ELSE IF s.state = "rejected" THEN OutcomeRejected(s.err)
  ELSE IF \A i \in 1..Len(tasks) : sl[tasks[i]].state = "fulfilled"
       THEN Resolved(PromiseAllValues(tasks, sl))
       ELSE outcome

GomuInit ==
  /\ chainId \in Chains
  /\ marketplaces = GomuConstructor(chainId)
  /\ instantiated = {m \in Adapters : InSeq(m, GomuConstructor(chainId))}
  /\ call = Idle
  /\ tasks = <<>>
  /\ promise = [m \in Adapters |-> NoPromise]
  /\ slot = [m \in Adapters |-> NoSlot]
  /\ invoked = NoInvocations
  /\ contacted = [m \in Adapters |-> FALSE]
  /\ outcome = NoOutcome
  /\ completed = <<>>

RestParams ==
  {r \in [taker : BOOLEAN, marketplacesGiven : BOOLEAN,
          marketplaces : SUBSET MarketplaceNames] :
     r.marketplacesGiven \/ r.marketplaces = {}}

\* the MakeOrderParams that Gomu.makeSellOrder hands to makeOrder
makeSellOrderParamsSwapped(assets, rest) ==
  [makerAssets |-> <<[type |-> "ERC20"]>>, takerAssets |-> assets,
   taker |-> rest.taker, marketplacesGiven |-> rest.marketplacesGiven,
   marketplaces |-> rest.marketplaces]

makeSellOrderParams(assets, rest) ==
  [makerAssets |-> assets, takerAssets |-> <<[type |-> "ERC20"]>>,
   taker |-> rest.taker, marketplacesGiven |-> rest.marketplacesGiven,
   marketplaces |-> rest.marketplaces]

\* the MakeOrderParams that Gomu.makeBuyOrder hands to makeOrder
makeBuyOrderParams(assets, rest) ==
  [makerAssets |-> <<[type |-> "ERC20"]>>, takerAssets |-> assets,
   taker |-> rest.taker, marketplacesGiven |-> rest.marketplacesGiven,
   marketplaces |-> rest.marketplaces]

\* Gomu.makeOrder(p) up to its return of the Promise.all promise; via, assets
\* and rest record the method the caller used and what it gave it
makeOrderCall(p, via, assets, rest) ==
  /\ call.op = "idle"
  /\ LET ts == SelectSeq(marketplaces,
                         LAMBDA m : makeOrderSelected(m, p.marketplacesGiven,
                                                      p.marketplaces))
         sync == [m \in Adapters |->
                    adapterMakeOrderSync(m, p.makerAssets, p.takerAssets)]
     IN
     /\ call' = [Idle EXCEPT !.op = "makeOrder",
                             !.makerAssets = p.makerAssets,
                             !.takerAssets = p.takerAssets,
                             !.taker = p.taker,
                             !.marketplacesGiven = p.marketplacesGiven,
                             !.marketplaces = p.marketplaces,
                             !.via = via, !.assets = assets, !.rest = rest]
     /\ tasks' = ts
     /\ invoked' = [m \in Adapters |->
                      IF m \in FanOutIssued(ts)
                      THEN [invoked[m] EXCEPT !["makeOrder"] = @ + 1]
                      ELSE invoked[m]]
     /\ promise' = [m \in Adapters |->
                      IF m \notin FanOutIssued(ts) THEN NoPromise
                      ELSE IF sync[m] = Ok THEN Pending
                      ELSE Rejected(ErrorOf(sync[m]))]
     /\ contacted' = [m \in Adapters |-> m \in FanOutIssued(ts) /\ sync[m] = Ok]
     /\ slot' = [m \in Adapters |->
                   IF m \in FanOutIssued(ts) THEN Waiting ELSE NoSlot]
     /\ outcome' = IF Len(ts) = 0 THEN Resolved(<<>>) ELSE OutcomePending
     /\ completed' = <<>>
  /\ UNCHANGED <<feeVars, commerceVars, adapterVars, opVars, chainId, marketplaces, instantiated>>

makeOrder ==
  /\ call.op = "idle"
  /\ \E makerAssets \in AssetLists, takerAssets \in AssetLists, rest \in RestParams :
    makeOrderCall([makerAssets |-> makerAssets, takerAssets |-> takerAssets,
                   taker |-> rest.taker,
                   marketplacesGiven |-> rest.marketplacesGiven,
                   marketplaces |-> rest.marketplaces],
                  "makeOrder", <<>>, rest)

makeSellOrder ==
  /\ call.op = "idle"
  /\ \E assets \in AssetLists, rest \in RestParams :
    makeOrderCall(makeSellOrderParams(assets, rest), "makeSellOrder", assets, rest)

makeBuyOrder ==
  /\ call.op = "idle"
  /\ \E assets \in AssetLists, rest \in RestParams :
    makeOrderCall(makeBuyOrderParams(assets, rest), "makeBuyOrder", assets, rest)

\* the marketplace answers adapter m's makeOrder (or the adapter had already
\* thrown), and the callback of Gomu.makeOrder resumes after its await
makeOrderSettle(m) ==
  /\ call.op = "makeOrder"
  /\ slot[m].state = "waiting"
  /\ \E p \in {Fulfilled(<<o>>) : o \in OrderIds}
              \cup {Rejected(e) : e \in AdapterErrors} :
       LET q == IF promise[m].state = "pending" THEN p ELSE promise[m]
           s == makeOrderEntry(m, q)
       IN
       /\ promise' = [promise EXCEPT ![m] = q]
       /\ slot' = [slot EXCEPT ![m] = s]
       /\ outcome' = Join(m, s)
       /\ completed' = Append(completed, m)
  /\ UNCHANGED <<feeVars, commerceVars, adapterVars, opVars, chainId, marketplaces, instantiated, call, tasks, invoked,
                 contacted>>

\* Gomu.getOrders up to its await of Promise.all
getOrders ==
  \E filter \in BOOLEAN :
    /\ call.op = "idle"
    /\ call' = [Idle EXCEPT !.op = "getOrders", !.filter = filter]
    /\ tasks' = marketplaces
    /\ invoked' = [m \in Adapters |->
                     IF m \in FanOutIssued(marketplaces)
                     THEN [invoked[m] EXCEPT !["getOrders"] = @ + 1]
                     ELSE invoked[m]]
    /\ promise' = [m \in Adapters |->
                     IF m \in FanOutIssued(marketplaces) THEN Pending ELSE NoPromise]
    /\ contacted' = [m \in Adapters |-> m \in FanOutIssued(marketplaces)]
    /\ slot' = [m \in Adapters |->
                  IF m \in FanOutIssued(marketplaces) THEN Waiting ELSE NoSlot]
    /\ completed' = <<>>
    /\ outcome' = IF Len(marketplaces) = 0 THEN Resolved(<<>>) ELSE OutcomePending
    /\ UNCHANGED <<feeVars, commerceVars, adapterVars, opVars, chainId, marketplaces, instantiated>>

\* the marketplace answers adapter m's getOrders, and the callback of
\* Gomu.getOrders resumes after its await
getOrdersSettle(m) ==
  /\ call.op = "getOrders"
  /\ slot[m].state = "waiting"
  /\ \E p \in {Fulfilled(os) : os \in OrderLists}
              \cup {Rejected(e) : e \in AdapterErrors} :
       LET s == getOrdersEntries(m, p) IN
       /\ promise' = [promise EXCEPT ![m] = p]
       /\ slot' = [slot EXCEPT ![m] = s]
       /\ outcome' = Join(m, s)
       /\ completed' = Append(completed, m)
  /\ UNCHANGED <<feeVars, commerceVars, adapterVars, opVars, chainId, marketplaces, instantiated, call, tasks, invoked,
                 contacted>>

\* the registry lookup of Gomu.takeOrder and Gomu.cancelOrder
lookupAny(name) == IF name \in Adapters THEN name ELSE AdapterOrder[1]

lookup(name) == name

\* Gomu.takeOrder / Gomu.cancelOrder up to the await of the adapter's call
single(op, order) ==
  LET target == lookup(order.marketplaceName) IN
  /\ call.op = "idle"
  /\ call' = [Idle EXCEPT !.op = op, !.order = order]
  /\ IF ~InRegistry(target)
     THEN /\ outcome' = OutcomeRejected(ErrorOf("unknown marketplace"))
          /\ tasks' = <<>>
          /\ UNCHANGED <<promise, invoked, contacted>>
     ELSE /\ outcome' = OutcomePending
          /\ tasks' = <<target>>
          /\ invoked' = [invoked EXCEPT ![target][op] = @ + 1]
          /\ promise' = [promise EXCEPT ![target] =
                           IF order.hasOrder THEN Pending
                           ELSE Rejected(ErrorOf("TypeError"))]
          /\ contacted' = [contacted EXCEPT ![target] = order.hasOrder]
  /\ completed' = <<>>
  /\ UNCHANGED <<feeVars, commerceVars, adapterVars, opVars, chainId, marketplaces, instantiated, slot>>

OrderArgs ==
  {[marketplaceName |-> n, hasOrder |-> TRUE, marketplaceOrder |-> o] :
     n \in MarketplaceNames, o \in OrderIds}
  \cup {[marketplaceName |-> n, hasOrder |-> FALSE, marketplaceOrder |-> 0] :
          n \in MarketplaceNames}

takeOrder == \E order \in OrderArgs : single("takeOrder", order)

cancelOrder == \E order \in OrderArgs : single("cancelOrder", order)

\* the adapter's takeOrder/cancelOrder settles and the facade resumes
singleSettle(m) ==
  /\ call.op \in {"takeOrder", "cancelOrder"}
  /\ outcome.state = "pending"
  /\ tasks = <<m>>
  /\ \E p \in {Fulfilled(<<r>>) : r \in OrderIds}
              \cup {Rejected(e) : e \in AdapterErrors} :
       LET q == IF promise[m].state = "pending" THEN p ELSE promise[m] IN
       /\ promise' = [promise EXCEPT ![m] = q]
       /\ outcome' = IF q.state = "fulfilled"
                     THEN Resolved(<<[marketplaceName |-> call.order.marketplaceName,
                                      marketplaceResponse |-> q.value[1]]>>)
                     ELSE OutcomeRejected(q.err)
       /\ completed' = Append(completed, m)
  /\ UNCHANGED <<feeVars, commerceVars, adapterVars, opVars, chainId, marketplaces, instantiated, call, tasks, slot,
                 invoked, contacted>>

\* the caller has its answer and every adapter call has settled: the facade
\* is ready for the next operation
Return ==
  /\ call.op # "idle"
  /\ outcome.state \in {"resolved", "rejected"}
  /\ \A m \in Adapters : slot[m].state # "waiting"
  /\ call' = Idle
  /\ tasks' = <<>>
  /\ promise' = [m \in Adapters |-> NoPromise]
  /\ slot' = [m \in Adapters |-> NoSlot]
  /\ invoked' = NoInvocations
  /\ contacted' = [m \in Adapters |-> FALSE]
  /\ outcome' = NoOutcome
  /\ completed' = <<>>
  /\ UNCHANGED <<feeVars, commerceVars, adapterVars, opVars, chainId, marketplaces, instantiated>>

GomuNext ==
  \/ makeOrder
  \/ makeSellOrder
  \/ makeBuyOrder
  \/ \E m \in Adapters : makeOrderSettle(m)
  \/ getOrders
  \/ \E m \in Adapters : getOrdersSettle(m)
  \/ takeOrder
  \/ cancelOrder
  \/ \E m \in Adapters : singleSettle(m)
  \/ Return

-----------------------------------------------------------------------------
(* Trader fee calculator *)

BASIS_POINTS_100_PERCENT == 10000

Recipients == {"0xR1", "0xR2"}

FlatAmounts == {0, 1, 3, 1000}

BasisPointsValues == {0, 1, 250, 5000, 9999, 10000}

BaseAmounts == {1, 3, 1000, 1000000}

\* type Fee = FlatAmountFee | BasisPointsFee; kind names the member present
Fees ==
  [recipient : Recipients, kind : {"amount"}, value : FlatAmounts]
  \cup [recipient : Recipients, kind : {"basisPoints"}, value : BasisPointsValues]

FeeLists == SeqsUpTo(Fees, MaxFees)

NotCalled ==
  [state |-> "none", error |-> "", flatAmountFees |-> <<>>, totalFeesAmount |-> 0]

Threw(e) ==
  [state |-> "threw", error |-> e, flatAmountFees |-> <<>>, totalFeesAmount |-> 0]

Returned(flat, total) ==
  [state |-> "returned", error |-> "", flatAmountFees |-> flat,
   totalFeesAmount |-> total]

\* new BigNumber(amount).times(basisPoints).div(10000).toFixed(0): the exact
\* quotient, rounded half up (bignumber.js's default ROUNDING_MODE); computed
\* on amount = q * 10000 + r so that no intermediate leaves 32 bits
feeAmountOf(amt, basisPoints) ==
  LET q == amt \div BASIS_POINTS_100_PERCENT
      r == amt % BASIS_POINTS_100_PERCENT
  IN  q * basisPoints
      + (2 * r * basisPoints + BASIS_POINTS_100_PERCENT)
          \div (2 * BASIS_POINTS_100_PERCENT)

\* the last index the loop visits: for (let i = 0; i <= fees.length; i++),
\* one-based here
feeLoopLastExclusive(fs) == Len(fs)

feeLoopLast(fs) == Len(fs) + 1

\* the loop of calculateFees from index i on, then the check of the total
RECURSIVE feeLoop(_, _, _, _, _)
feeLoop(fs, amt, i, flat, total) ==
  IF i > feeLoopLast(fs)
  THEN IF total >= amt
       THEN Threw("Total fees cannot be greater than or equal to amount")
       ELSE Returned(flat, total)
  ELSE IF i > Len(fs)
  THEN Threw("TypeError")  \* fees[i] is undefined: '"amount" in fee' throws
  ELSE LET fee == fs[i] IN
       IF fee.kind = "amount" /\ fee.value > 0
       THEN IF fee.value >= amt
            THEN Threw("Fee amount cannot be greater than or equal to amount")
            ELSE feeLoop(fs, amt, i + 1,
                         Append(flat, [recipient |-> fee.recipient,
                                       amount |-> fee.value]),
                         total + fee.value)
       ELSE IF fee.kind = "basisPoints" /\ fee.value > 0
       THEN IF fee.value >= BASIS_POINTS_100_PERCENT
            THEN Threw("Fee basis points cannot be greater than or equal to 100% of amount")
            ELSE feeLoop(fs, amt, i + 1,
                         Append(flat, [recipient |-> fee.recipient,
                                       basisPoints |-> fee.value,
                                       amount |-> feeAmountOf(amt, fee.value)]),
                         total + feeAmountOf(amt, fee.value))
       ELSE feeLoop(fs, amt, i + 1, flat, total)

calculateFees(fs, amt) ==
  IF Len(fs) > 0 THEN feeLoop(fs, amt, 1, <<>>, 0) ELSE Returned(<<>>, 0)

\* Trader.makeOrder has not been called
NoTraderOrder ==
  [state |-> "none", stage |-> "", error |-> NoError, erc20Side |-> "",
   erc20Amount |-> 0, fees |-> <<>>]

\* Trader.makeOrder for an ERC20 leg of `amt` against an NFT (the validators
\* pass), with marketplacesConfig.trader.fees = fs: the fees are computed, the
\* ERC20 amount is reduced by their total, the asset is approved and the order
\* built, signed and posted; `network` is what approval or posting throws
Trader_makeOrderRun(fs, amt, erc20Side, network) ==
  LET computed == calculateFees(fs, amt) IN
  IF computed.state = "threw"
  THEN [NoTraderOrder EXCEPT !.state = "rejected", !.stage = "fees",
                             !.error = ErrorOf(computed.error),
                             !.erc20Side = erc20Side]
  ELSE IF network.kind # "none"
  THEN [NoTraderOrder EXCEPT !.state = "rejected", !.stage = "network",
                             !.error = network, !.erc20Side = erc20Side]
  ELSE [state |-> "posted", stage |-> "posted", error |-> NoError,
        erc20Side |-> erc20Side,
        erc20Amount |-> amt - computed.totalFeesAmount,
        fees |-> computed.flatAmountFees]

FeesInit ==
  /\ fees \in FeeLists
  /\ amount \in BaseAmounts
  /\ feeResult = NotCalled
  /\ traderOrder = NoTraderOrder

FeesIdle ==
  /\ fees = <<>>
  /\ amount \in {1}
  /\ feeResult = NotCalled
  /\ traderOrder = NoTraderOrder

calculateFeesCall ==
  /\ feeResult.state = "none"
  /\ feeResult' = calculateFees(fees, amount)
  /\ UNCHANGED <<fees, amount, traderOrder, gomuVars, commerceVars, adapterVars, opVars>>

\* Trader.makeOrder, whose call of calculateFees is the one recorded
Trader_makeOrder ==
  \E erc20Side \in {"maker", "taker"}, network \in {NoError} \cup AdapterErrors :
    /\ feeResult.state = "none"
    /\ feeResult' = calculateFees(fees, amount)
    /\ traderOrder' = Trader_makeOrderRun(fees, amount, erc20Side, network)
    /\ UNCHANGED <<fees, amount, gomuVars, commerceVars, adapterVars, opVars>>

-----------------------------------------------------------------------------
(* CommerceSdk *)

SUPPORTED_PLATFORMS == <<"opensea", "traderxyz">>

Platforms == {SUPPORTED_PLATFORMS[i] : i \in 1..Len(SUPPORTED_PLATFORMS)}

PlatformArgs == Platforms \cup {"looksrare"}

CommerceChains == {1, 3, 4, 5, 137}

\* the members of SupportedChainIdsV4 among CommerceChains
traderxyzSupportedChains == {1, 3, 137}

\* the keys of the nft-swap-sdk's v4 addresses.json among CommerceChains; the
\* NftSwapV4 constructor throws for a chain that has no addresses
traderxyzAddressChains == {1, 3, 137}

SUPPORTED_CHAINS_MAPPING(key) ==
  IF key = "opensea" THEN {1, 4} ELSE traderxyzSupportedChains

\* new TraderxyzSdk(config) throws for the chains NftSwapV4 rejects
TraderxyzSdkThrows(c) == c \notin traderxyzAddressChains

\* getTraderxyzSdk: on a throw, build the SDK for chain 1 and keep the error
getTraderxyzSdk(c) ==
  IF TraderxyzSdkThrows(c)
  THEN [chainId |-> 1, error |-> TRUE]
  ELSE [chainId |-> c, error |-> FALSE]

NoSdk ==
  [constructed |-> "threw", chainId |-> 0, selectedPlatforms |-> {},
   enabledPlatforms |-> <<>>, traderxyzSdk |-> [chainId |-> 0, error |-> FALSE],
   isOpenseaEnabled |-> FALSE, sdkMapping |-> {}]

CommerceSdkConstructor(c, hasProviders, selectedPlatforms) ==
  IF ~hasProviders THEN [NoSdk EXCEPT !.chainId = c]
  ELSE
    LET enabled ==
          SelectSeq(SUPPORTED_PLATFORMS,
                    LAMBDA key :
                      /\ ~(selectedPlatforms # {} /\ key \notin selectedPlatforms)
                      /\ c \in SUPPORTED_CHAINS_MAPPING(key))
    IN [constructed |-> "ok", chainId |-> c,
        selectedPlatforms |-> selectedPlatforms,
        enabledPlatforms |-> enabled,
        traderxyzSdk |-> getTraderxyzSdk(c),
        isOpenseaEnabled |-> InSeq("opensea", enabled),
        sdkMapping |-> Platforms]

NoOp == [name |-> "none", platform |-> ""]

Ran(calls, ended) == [calls |-> calls, outcome |-> ended, approval |-> "none"]

\* the operation went as far as invoking createOrder; approval is where the
\* promise of its own _approveAssetsStatuses call stood at that moment
RanOrders(calls, ended, approval) ==
  [calls |-> calls, outcome |-> ended, approval |-> approval]

\* CommerceSdk._approveAssetsStatuses
approveAssetsStatuses(s) ==
  IF s.chainId \in traderxyzAddressChains
  THEN {<<"traderxyz", "approveAssetsStatuses">>}
  ELSE {}

createOrderCalls(s) ==
  {<<s.enabledPlatforms[i], "createOrder">> : i \in 1..Len(s.enabledPlatforms)}

\* a call of _approveAssetsStatuses that is not awaited: on a chain without
\* traderxyz addresses the function has nothing to do, otherwise it is
\* suspended on loadApprovalStatus when the caller goes on
approvalNotAwaited(s) ==
  IF approveAssetsStatuses(s) = {} THEN "skipped" ELSE "pending"

\* a call of _approveAssetsStatuses that is awaited and did not reject
approvalAwaited(s) ==
  IF approveAssetsStatuses(s) = {} THEN "skipped" ELSE "completed"

\* CommerceSdk.createSellOrders: the platform SDK calls it makes and how it
\* ends, the platforms in `failing` rejecting whatever they are asked; the
\* approval is started and not awaited, and the map callbacks invoke
\* createOrder in the same turn
createSellOrdersRun(s, paymentGiven, tokenKnown, failing) ==
  IF Len(s.enabledPlatforms) = 0 THEN Ran({}, "rejected")
  ELSE
    LET asked == s.isOpenseaEnabled /\ paymentGiven
        c1 == IF asked THEN {<<"opensea", "getPaymentTokens">>} ELSE {}
    IN IF asked /\ "opensea" \in failing THEN Ran(c1, "rejected")
       ELSE IF asked /\ ~tokenKnown THEN Ran(c1, "rejected")
       ELSE RanOrders(c1 \cup approveAssetsStatuses(s) \cup createOrderCalls(s),
                      IF \E i \in 1..Len(s.enabledPlatforms) :
                           s.enabledPlatforms[i] \in failing
                      THEN "rejected" ELSE "resolved",
                      approvalNotAwaited(s))

\* CommerceSdk.createBuyOrders
createBuyOrdersRun(s, paymentGiven, tokenKnown, failing) ==
  IF Len(s.enabledPlatforms) = 0 THEN Ran({}, "rejected")
  ELSE IF ~paymentGiven /\ ~s.isOpenseaEnabled THEN Ran({}, "rejected")
  ELSE
    LET asked == s.isOpenseaEnabled
        c1 == IF asked THEN {<<"opensea", "getPaymentTokens">>} ELSE {}
        c2 == c1 \cup approveAssetsStatuses(s)
    IN IF asked /\ "opensea" \in failing THEN Ran(c1, "rejected")
       ELSE IF asked /\ ~tokenKnown THEN Ran(c1, "rejected")
       ELSE IF approveAssetsStatuses(s) # {} /\ "traderxyz" \in failing
       THEN Ran(c2, "rejected")
       ELSE RanOrders(c2 \cup createOrderCalls(s),
                      IF \E i \in 1..Len(s.enabledPlatforms) :
                           s.enabledPlatforms[i] \in failing
                      THEN "rejected" ELSE "resolved",
                      approvalAwaited(s))

\* CommerceSdk._getSdk
getSdk(s, platform) == IF platform \in s.sdkMapping THEN platform ELSE ""

\* CommerceSdk.fulfillOrder / CommerceSdk.cancelOrder
platformOrderRun(s, method, platform, failing) ==
  IF getSdk(s, platform) = "" THEN Ran({}, "rejected")
  ELSE Ran({<<getSdk(s, platform), method>>},
           IF platform \in failing THEN "rejected" ELSE "resolved")

CommerceInit ==
  /\ \E c \in CommerceChains, hasProviders \in BOOLEAN,
        selectedPlatforms \in SUBSET Platforms :
       sdk = CommerceSdkConstructor(c, hasProviders, selectedPlatforms)
  /\ csOp = NoOp
  /\ csCalls = {}
  /\ csOutcome = "none"
  /\ csApproval = "none"

CommerceIdle ==
  /\ sdk = NoSdk
  /\ csOp = NoOp
  /\ csCalls = {}
  /\ csOutcome = "none"
  /\ csApproval = "none"

createSellOrders ==
  \E paymentGiven \in BOOLEAN, tokenKnown \in BOOLEAN, failing \in SUBSET Platforms :
    /\ sdk.constructed = "ok"
    /\ csOp' = [name |-> "createSellOrders", platform |-> ""]
    /\ csCalls' = createSellOrdersRun(sdk, paymentGiven, tokenKnown, failing).calls
    /\ csOutcome' = createSellOrdersRun(sdk, paymentGiven, tokenKnown, failing).outcome
    /\ csApproval' = createSellOrdersRun(sdk, paymentGiven, tokenKnown, failing).approval
    /\ UNCHANGED <<sdk, gomuVars, feeVars, adapterVars, opVars>>

createBuyOrders ==
  \E paymentGiven \in BOOLEAN, tokenKnown \in BOOLEAN, failing \in SUBSET Platforms :
    /\ sdk.constructed = "ok"
    /\ csOp' = [name |-> "createBuyOrders", platform |-> ""]
    /\ csCalls' = createBuyOrdersRun(sdk, paymentGiven, tokenKnown, failing).calls
    /\ csOutcome' = createBuyOrdersRun(sdk, paymentGiven, tokenKnown, failing).outcome
    /\ csApproval' = createBuyOrdersRun(sdk, paymentGiven, tokenKnown, failing).approval
    /\ UNCHANGED <<sdk, gomuVars, feeVars, adapterVars, opVars>>

getAssetOrders ==
  \E failing \in SUBSET Platforms :
    /\ sdk.constructed = "ok"
    /\ csOp' = [name |-> "getAssetOrders", platform |-> ""]
    /\ csCalls' = {<<sdk.enabledPlatforms[i], "getAssetOrders">> :
                     i \in 1..Len(sdk.enabledPlatforms)}
    /\ csOutcome' = IF \E i \in 1..Len(sdk.enabledPlatforms) :
                         sdk.enabledPlatforms[i] \in failing
                    THEN "rejected" ELSE "resolved"
    /\ csApproval' = "none"
    /\ UNCHANGED <<sdk, gomuVars, feeVars, adapterVars, opVars>>

fulfillOrder ==
  \E platform \in PlatformArgs, failing \in SUBSET Platforms :
    /\ sdk.constructed = "ok"
    /\ csOp' = [name |-> "fulfillOrder", platform |-> platform]
    /\ csCalls' = platformOrderRun(sdk, "fulfillOrder", platform, failing).calls
    /\ csOutcome' = platformOrderRun(sdk, "fulfillOrder", platform, failing).outcome
    /\ csApproval' = "none"
    /\ UNCHANGED <<sdk, gomuVars, feeVars, adapterVars, opVars>>

commerceCancelOrder ==
  \E platform \in PlatformArgs, failing \in SUBSET Platforms :
    /\ sdk.constructed = "ok"
    /\ csOp' = [name |-> "cancelOrder", platform |-> platform]
    /\ csCalls' = platformOrderRun(sdk, "cancelOrder", platform, failing).calls
    /\ csOutcome' = platformOrderRun(sdk, "cancelOrder", platform, failing).outcome
    /\ csApproval' = "none"
    /\ UNCHANGED <<sdk, gomuVars, feeVars, adapterVars, opVars>>

-----------------------------------------------------------------------------
(* The adapters' makeOrder, called directly *)

\* the adapter classes: Opensea, Trader, LooksRare and TraderV3
AdapterKinds == {"opensea", "trader", "looksrare", "traderV3"}

\* LooksRare.makeOrder up to its first await: a targeted taker is refused
\* first, then the validators run, then the ask/bid branch
looksrareMakeOrderSyncUnvalidated(makerAssets, takerAssets, taker) ==
  IF taker THEN "targeted taker unsupported in looksrare"
  ELSE IF /\ Len(makerAssets) > 0 /\ Len(takerAssets) > 0
          /\ \/ /\ makerAssets[1].type \in {"ERC721", "ERC1155"}
                /\ takerAssets[1].type = "ERC20"
             \/ /\ makerAssets[1].type = "ERC20"
                /\ takerAssets[1].type \in {"ERC721", "ERC1155"}
       THEN Ok
       ELSE "unsupported operation"

looksrareMakeOrderSync(makerAssets, takerAssets, taker) ==
  IF taker THEN "targeted taker unsupported in looksrare"
  ELSE LET v == adapterValidate(makerAssets, takerAssets) IN
       IF v # Ok THEN v
       ELSE IF \/ /\ makerAssets[1].type \in {"ERC721", "ERC1155"}
                  /\ takerAssets[1].type = "ERC20"
               \/ /\ makerAssets[1].type = "ERC20"
                  /\ takerAssets[1].type \in {"ERC721", "ERC1155"}
            THEN Ok
            ELSE "unsupported operation"

\* TraderV3.makeOrder up to its first await: every asset of either side is
\* converted (total on the three asset types), no validator is called, and
\* the approvals are awaited
traderV3MakeOrderSync(makerAssets, takerAssets) == Ok

NotInvoked == [state |-> "none", error |-> ""]

\* the adapter threw before its first await: no marketplace call was made
AdapterThrew(msg) == [state |-> "threw", error |-> msg]

\* the adapter reached its first await, on a marketplace or chain call
AdapterAwaiting == [state |-> "awaiting", error |-> ""]

Began(sync) == IF sync = Ok THEN AdapterAwaiting ELSE AdapterThrew(sync)

MakeOrderParamsSet ==
  [makerAssets : AssetLists, takerAssets : AssetLists, taker : BOOLEAN]

AdaptersInit ==
  /\ params \in MakeOrderParamsSet
  /\ result = [a \in AdapterKinds |-> NotInvoked]

AdaptersIdle ==
  /\ params = [makerAssets |-> <<>>, takerAssets |-> <<>>, taker |-> FALSE]
  /\ result = [a \in AdapterKinds |-> NotInvoked]

OpenseaMakeOrder ==
  /\ result["opensea"].state = "none"
  /\ result' = [result EXCEPT !["opensea"] =
                  Began(openseaMakeOrderSync(params.makerAssets, params.takerAssets))]
  /\ UNCHANGED <<params, gomuVars, feeVars, commerceVars, opVars>>

TraderMakeOrder ==
  /\ result["trader"].state = "none"
  /\ result' = [result EXCEPT !["trader"] =
                  Began(traderMakeOrderSync(params.makerAssets, params.takerAssets))]
  /\ UNCHANGED <<params, gomuVars, feeVars, commerceVars, opVars>>

LooksRareMakeOrder ==
  /\ result["looksrare"].state = "none"
  /\ result' = [result EXCEPT !["looksrare"] =
                  Began(looksrareMakeOrderSync(params.makerAssets,
                                               params.takerAssets, params.taker))]
  /\ UNCHANGED <<params, gomuVars, feeVars, commerceVars, opVars>>

TraderV3MakeOrder ==
  /\ result["traderV3"].state = "none"
  /\ result' = [result EXCEPT !["traderV3"] =
                  Began(traderV3MakeOrderSync(params.makerAssets, params.takerAssets))]
  /\ UNCHANGED <<params, gomuVars, feeVars, commerceVars, opVars>>

-----------------------------------------------------------------------------
(* Adapter operations, called directly *)

NoRequest == [adapter |-> "none", method |-> "none"]

NotRun == [state |-> "none"]

OpReturned(v) == [state |-> "returned", value |-> v]

OpThrew(msg) == [state |-> "threw", error |-> msg]

\* the decimal strings the marketplaces' APIs give for amounts and prices
DecimalStrings == {"1", "3", "10"}

\* BigInt(string) on those strings
BigInt(str) ==
  CASE str = "1" -> 1
    [] str = "3" -> 3
    [] str = "10" -> 10

TokenIds == {"7", "8"}

NftContract == "0xNft"

Erc20Contract == "0xErc20"

NativeToken == "0x0"

(* normalizeOrder *)

ORDER_SIDE_SELL_Trader == "sell"

\* the orders the Trader API returns: nftType is ERC721, ERC1155 or a type
\* this SDK does not know
TraderOriginalOrders ==
  [sellOrBuyNft : {ORDER_SIDE_SELL_Trader, "buy"},
   nftType : {"ERC721", "ERC1155", "ERC1155Lazy"},
   nftToken : {NftContract}, nftTokenId : TokenIds,
   nftTokenAmount : {"1", "3"},
   erc20Token : {Erc20Contract}, erc20TokenAmount : {"10"}]

determineNftAssetTrader(order) ==
  IF order.nftType = "ERC721"
  THEN [type |-> "ERC721", contractAddress |-> order.nftToken,
        tokenId |-> order.nftTokenId]
  ELSE IF order.nftType = "ERC1155"
  THEN [type |-> "ERC1155", contractAddress |-> order.nftToken,
        tokenId |-> order.nftTokenId, amount |-> BigInt(order.nftTokenAmount)]
  ELSE [type |-> "Unknown", contractAddress |-> order.nftToken,
        tokenId |-> order.nftTokenId, amount |-> BigInt(order.nftTokenAmount)]

normalizeOrderTraderSwapped(order) ==
  LET isSellOrder == order.sellOrBuyNft = ORDER_SIDE_SELL_Trader
      nftAsset == determineNftAssetTrader(order)
      erc20Asset == [contractAddress |-> order.erc20Token, type |-> "ERC20",
                     amount |-> BigInt(order.erc20TokenAmount)]
  IN  [makerAssets |-> IF isSellOrder THEN <<erc20Asset>> ELSE <<nftAsset>>,
       takerAssets |-> IF isSellOrder THEN <<nftAsset>> ELSE <<erc20Asset>>,
       isSellOrder |-> isSellOrder]

normalizeOrderTrader(order) ==
  LET isSellOrder == order.sellOrBuyNft = ORDER_SIDE_SELL_Trader
      nftAsset == determineNftAssetTrader(order)
      erc20Asset == [contractAddress |-> order.erc20Token, type |-> "ERC20",
                     amount |-> BigInt(order.erc20TokenAmount)]
  IN  [makerAssets |-> IF isSellOrder THEN <<nftAsset>> ELSE <<erc20Asset>>,
       takerAssets |-> IF isSellOrder THEN <<erc20Asset>> ELSE <<nftAsset>>,
       isSellOrder |-> isSellOrder]

\* enum ItemType of the Opensea adapter
ItemType_NATIVE == 0
ItemType_ERC20 == 1
ItemType_ERC721 == 2
ItemType_ERC1155 == 3
ItemType_ERC721_WITH_CRITERIA == 4
ItemType_ERC1155_WITH_CRITERIA == 5

ORDER_SIDE_SELL_Opensea == "ask"

ORDER_SIDE_BUY_Opensea == "bid"

\* the items of the non-fungible leg of a Seaport order
OpenseaNftItems ==
  [itemType : {ItemType_NATIVE, ItemType_ERC721, ItemType_ERC1155,
               ItemType_ERC721_WITH_CRITERIA, ItemType_ERC1155_WITH_CRITERIA},
   token : {NftContract}, identifierOrCriteria : TokenIds,
   endAmount : {"1", "3"}]

\* the payment and fee items of a Seaport order: listings are paid in an
\* ERC20 token or in the native currency, offers in an ERC20 token
OpenseaErc20Item ==
  [itemType |-> ItemType_ERC20, token |-> Erc20Contract,
   identifierOrCriteria |-> "0", endAmount |-> "10"]

OpenseaNativeItem ==
  [itemType |-> ItemType_NATIVE, token |-> NativeToken,
   identifierOrCriteria |-> "0", endAmount |-> "10"]

\* the orders the OpenSea API returns: a listing offers the item for a
\* payment and an optional fee, an offer offers ERC20 for the item, with an
\* optional fee item behind it
OpenseaOriginalOrders ==
  {[side |-> ORDER_SIDE_SELL_Opensea, offer |-> <<n>>, consideration |-> c,
    currentPrice |-> "10"] :
     n \in OpenseaNftItems,
     c \in {<<OpenseaErc20Item>>, <<OpenseaErc20Item, OpenseaErc20Item>>,
            <<OpenseaNativeItem>>, <<OpenseaNativeItem, OpenseaNativeItem>>}}
  \cup
  {[side |-> ORDER_SIDE_BUY_Opensea, offer |-> <<OpenseaErc20Item>>,
    consideration |-> c, currentPrice |-> "10"] :
     c \in {<<n>> : n \in OpenseaNftItems}
           \cup {<<n, OpenseaErc20Item>> : n \in OpenseaNftItems}}

determineNftAssetOpenseaCriteriaUnknown(item) ==
  LET endAmount == BigInt(item.endAmount) IN
  IF item.itemType = ItemType_ERC721
  THEN [type |-> "ERC721", contractAddress |-> item.token,
        tokenId |-> item.identifierOrCriteria]
  ELSE IF item.itemType = ItemType_ERC1155
  THEN [type |-> "ERC1155", contractAddress |-> item.token,
        tokenId |-> item.identifierOrCriteria, amount |-> endAmount]
  ELSE [type |-> "Unknown", contractAddress |-> item.token,
        tokenId |-> item.identifierOrCriteria, amount |-> endAmount]

determineNftAssetOpensea(item) ==
  LET endAmount == BigInt(item.endAmount) IN
  IF \/ item.itemType = ItemType_ERC721
     \/ item.itemType = ItemType_ERC721_WITH_CRITERIA
  THEN [type |-> "ERC721", contractAddress |-> item.token,
        tokenId |-> item.identifierOrCriteria]
  ELSE IF \/ item.itemType = ItemType_ERC1155
          \/ item.itemType = ItemType_ERC1155_WITH_CRITERIA
  THEN [type |-> "ERC1155", contractAddress |-> item.token,
        tokenId |-> item.identifierOrCriteria, amount |-> endAmount]
  ELSE [type |-> "Unknown", contractAddress |-> item.token,
        tokenId |-> item.identifierOrCriteria, amount |-> endAmount]

IsNotErc20Item(item) == item.itemType # ItemType_ERC20

normalizeOrderOpensea(order) ==
  LET isSellOrder == order.side = ORDER_SIDE_SELL_Opensea
      priced == IF isSellOrder THEN order.consideration ELSE order.offer
      erc20Asset == [contractAddress |-> priced[1].token, type |-> "ERC20",
                     amount |-> BigInt(order.currentPrice)]
      kept == SelectSeq(IF isSellOrder THEN order.offer ELSE order.consideration,
                        IsNotErc20Item)
      nftAssets == [i \in 1..Len(kept) |-> determineNftAssetOpensea(kept[i])]
  IN  [makerAssets |-> IF isSellOrder THEN nftAssets ELSE <<erc20Asset>>,
       takerAssets |-> IF isSellOrder THEN <<erc20Asset>> ELSE nftAssets,
       isSellOrder |-> isSellOrder]

\* the maker orders the LooksRare API returns
LooksRareOriginalOrders ==
  [isOrderAsk : BOOLEAN, collectionAddress : {NftContract}, tokenId : TokenIds,
   amount : {"1", "3"}, currencyAddress : {Erc20Contract}, price : {"10"}]

\* new BigNumber(price).toString() on the decimal strings
BigNumberToString(str) == str

normalizeOrderLooksRare(order) ==
  LET isSellOrder == order.isOrderAsk
      nftAsset == [contractAddress |-> order.collectionAddress,
                   tokenId |-> order.tokenId, amount |-> order.amount]
      erc20Asset == [contractAddress |-> order.currencyAddress, type |-> "ERC20",
                     amount |-> BigNumberToString(order.price)]
  IN  [makerAssets |-> IF isSellOrder THEN <<nftAsset>> ELSE <<erc20Asset>>,
       takerAssets |-> IF isSellOrder THEN <<erc20Asset>> ELSE <<nftAsset>>,
       isSellOrder |-> isSellOrder]

NormalizeRequests ==
  {[adapter |-> "trader", method |-> "normalizeOrder", order |-> o] :
     o \in TraderOriginalOrders}
  \cup {[adapter |-> "opensea", method |-> "normalizeOrder", order |-> o] :
          o \in OpenseaOriginalOrders}
  \cup {[adapter |-> "looksrare", method |-> "normalizeOrder", order |-> o] :
          o \in LooksRareOriginalOrders}

Requested(adapter, method) ==
  /\ request.adapter = adapter
  /\ request.method = method
  /\ response.state = "none"

Trader_normalizeOrder ==
  /\ Requested("trader", "normalizeOrder")
  /\ response' = OpReturned(normalizeOrderTrader(request.order))
  /\ UNCHANGED <<request, trace, gomuVars, feeVars, commerceVars, adapterVars>>

Opensea_normalizeOrder ==
  /\ Requested("opensea", "normalizeOrder")
  /\ response' = OpReturned(normalizeOrderOpensea(request.order))
  /\ UNCHANGED <<request, trace, gomuVars, feeVars, commerceVars, adapterVars>>

LooksRare_normalizeOrder ==
  /\ Requested("looksrare", "normalizeOrder")
  /\ response' = OpReturned(normalizeOrderLooksRare(request.order))
  /\ UNCHANGED <<request, trace, gomuVars, feeVars, commerceVars, adapterVars>>

(* getOrders, makeOrder and takeOrder of the LooksRare and Opensea adapters *)

\* one call to a marketplace API, the signer or the exchange contract; side
\* is the order side the call carries, where it carries one
Event(api, side) == [api |-> api, side |-> side]

\* an asset filter that is not given
NoAsset == [type |-> "none"]

FilterAssets == {NoAsset} \cup [type : AssetTypes \cup {"Unknown"}]

GetOrdersParamsSet ==
  [makerAsset : FilterAssets, takerAsset : FilterAssets,
   maker : BOOLEAN, taker : BOOLEAN]

\* the branch both getOrders share: the side comes from where the
\* non-fungible asset is, the fungible asset may be missing
filterSideByFungible(makerAsset, takerAsset) ==
  IF takerAsset.type = "ERC20" /\ makerAsset.type # "ERC20" THEN "ask"
  ELSE IF makerAsset.type = "ERC20" /\ takerAsset.type # "ERC20" THEN "bid"
  ELSE "unsupported operation"

filterSide(makerAsset, takerAsset) ==
  IF /\ makerAsset.type # "none"
     /\ makerAsset.type \in {"ERC721", "ERC1155"}
     /\ (takerAsset.type = "none" \/ takerAsset.type = "ERC20")
  THEN "ask"
  ELSE IF /\ (makerAsset.type = "none" \/ makerAsset.type = "ERC20")
          /\ takerAsset.type # "none"
          /\ takerAsset.type \in {"ERC721", "ERC1155"}
  THEN "bid"
  ELSE "unsupported operation"

AskOrder ==
  [isOrderAsk |-> TRUE, collectionAddress |-> NftContract, tokenId |-> "7",
   amount |-> "1", currencyAddress |-> Erc20Contract, price |-> "10"]

BidOrder ==
  [isOrderAsk |-> FALSE, collectionAddress |-> NftContract, tokenId |-> "8",
   amount |-> "1", currencyAddress |-> Erc20Contract, price |-> "10"]

\* what one LooksRare API call can answer: a list of orders, or a failure
ApiFailed == [ok |-> FALSE, orders |-> <<>>]

LooksRareApiResults ==
  {ApiFailed} \cup {[ok |-> TRUE, orders |-> l] :
                      l \in {<<>>, <<AskOrder>>, <<BidOrder>>}}

OpenseaListing ==
  [side |-> ORDER_SIDE_SELL_Opensea,
   offer |-> <<[itemType |-> ItemType_ERC721, token |-> NftContract,
                identifierOrCriteria |-> "7", endAmount |-> "1"]>>,
   consideration |-> <<OpenseaErc20Item>>, currentPrice |-> "10"]

OpenseaOffer ==
  [side |-> ORDER_SIDE_BUY_Opensea, offer |-> <<OpenseaErc20Item>>,
   consideration |-> <<[itemType |-> ItemType_ERC721, token |-> NftContract,
                        identifierOrCriteria |-> "8", endAmount |-> "1"]>>,
   currentPrice |-> "10"]

OpenseaApiResults ==
  {ApiFailed} \cup {[ok |-> TRUE, orders |-> l] :
                      l \in {<<>>, <<OpenseaListing>>, <<OpenseaOffer>>}}

ApiError == "marketplace request failed"

\* the test `if (taker)` of LooksRare.getOrders
takerGivenIgnored(taker) == FALSE

takerGiven(taker) == taker

\* LooksRare.getOrders: a taker filter answers [] at once; without asset
\* filter one fetch with no side; otherwise the side of filterSide
LooksRare_getOrders ==
  /\ Requested("looksrare", "getOrders")
  /\ IF takerGiven(request.taker)
     THEN /\ trace' = <<>>
          /\ response' = OpReturned(<<>>)
     ELSE LET side == IF request.makerAsset.type = "none"
                         /\ request.takerAsset.type = "none"
                      THEN "unset"
                      ELSE filterSide(request.makerAsset, request.takerAsset)
          IN  IF side = "unsupported operation"
              THEN /\ trace' = <<>>
                   /\ response' = OpThrew("unsupported operation")
              ELSE \E r \in LooksRareApiResults :
                     /\ trace' = <<Event("looksrare.fetchOrders", side)>>
                     /\ response' =
                          IF r.ok
                          THEN OpReturned([i \in 1..Len(r.orders) |->
                                             normalizeOrderLooksRare(r.orders[i])])
                          ELSE OpThrew(ApiError)
  /\ UNCHANGED <<request, gomuVars, feeVars, commerceVars, adapterVars>>

\* Opensea.getOrders: without asset filter the buy orders and then the sell
\* orders are queried in sequence; otherwise one query with the side of
\* filterSide
Opensea_getOrders ==
  /\ Requested("opensea", "getOrders")
  /\ IF request.makerAsset.type = "none" /\ request.takerAsset.type = "none"
     THEN \E buy \in OpenseaApiResults, sell \in OpenseaApiResults :
            IF ~buy.ok
            THEN /\ sell = ApiFailed
                 /\ trace' = <<Event("opensea.getOrders", "bid")>>
                 /\ response' = OpThrew(ApiError)
            ELSE /\ trace' = <<Event("opensea.getOrders", "bid"),
                               Event("opensea.getOrders", "ask")>>
                 /\ response' =
                      IF sell.ok
                      THEN LET all == buy.orders \o sell.orders
                           IN  OpReturned([i \in 1..Len(all) |->
                                             normalizeOrderOpensea(all[i])])
                      ELSE OpThrew(ApiError)
     ELSE LET side == filterSide(request.makerAsset, request.takerAsset)
          IN  IF side = "unsupported operation"
              THEN /\ trace' = <<>>
                   /\ response' = OpThrew("unsupported operation")
              ELSE \E r \in OpenseaApiResults :
                     /\ trace' = <<Event("opensea.getOrders", side)>>
                     /\ response' =
                          IF r.ok
                          THEN OpReturned([i \in 1..Len(r.orders) |->
                                             normalizeOrderOpensea(r.orders[i])])
                          ELSE OpThrew(ApiError)
  /\ UNCHANGED <<request, gomuVars, feeVars, commerceVars, adapterVars>>

\* the steps of LooksRare.makeOrder after its synchronous part: the nonce is
\* fetched, the maker order signed, the signed order posted
LooksRareMakeOrderSteps(side) ==
  <<Event("looksrare.getNonce", "unset"), Event("signMakerOrder", side),
    Event("looksrare.postOrder", side)>>

\* LooksRare.makeOrder: whatever looksrareMakeOrderSync throws is thrown
\* with nothing contacted; otherwise the steps run until one fails
LooksRare_makeOrder ==
  /\ Requested("looksrare", "makeOrder")
  /\ LET sync == looksrareMakeOrderSync(request.makerAssets, request.takerAssets,
                                        request.taker)
     IN  IF sync # Ok
         THEN /\ trace' = <<>>
              /\ response' = OpThrew(sync)
         ELSE LET isOrderAsk == request.makerAssets[1].type \in {"ERC721", "ERC1155"}
                  steps == LooksRareMakeOrderSteps(IF isOrderAsk THEN "ask" ELSE "bid")
              IN  \E done \in 1..Len(steps), failed \in BOOLEAN :
                    /\ failed \/ done = Len(steps)
                    /\ trace' = SubSeq(steps, 1, done)
                    /\ response' =
                         IF failed THEN OpThrew(ApiError)
                         ELSE OpReturned(normalizeOrderLooksRare(
                                IF isOrderAsk THEN AskOrder ELSE BidOrder))
  /\ UNCHANGED <<request, gomuVars, feeVars, commerceVars, adapterVars>>

\* LooksRare.takeOrder: the taker order takes the other side of the maker
\* order, and the matching exchange method is called with it
LooksRare_takeOrderSameSide ==
  /\ Requested("looksrare", "takeOrder")
  /\ LET takerOrder == [isOrderAsk |-> request.originalOrder.isOrderAsk]
         method == IF takerOrder.isOrderAsk THEN "exchange.matchBidWithTakerAsk"
                   ELSE "exchange.matchAskWithTakerBid"
     IN  \E mined \in BOOLEAN :
           /\ trace' = <<Event(method, IF takerOrder.isOrderAsk THEN "ask" ELSE "bid")>>
           /\ response' = IF mined THEN OpReturned("receipt")
                          ELSE OpThrew("transaction failed")
  /\ UNCHANGED <<request, gomuVars, feeVars, commerceVars, adapterVars>>

LooksRare_takeOrder ==
  /\ Requested("looksrare", "takeOrder")
  /\ LET takerOrder == [isOrderAsk |-> ~request.originalOrder.isOrderAsk]
         method == IF takerOrder.isOrderAsk THEN "exchange.matchBidWithTakerAsk"
                   ELSE "exchange.matchAskWithTakerBid"
     IN  \E mined \in BOOLEAN :
           /\ trace' = <<Event(method, IF takerOrder.isOrderAsk THEN "ask" ELSE "bid")>>
           /\ response' = IF mined THEN OpReturned("receipt")
                          ELSE OpThrew("transaction failed")
  /\ UNCHANGED <<request, gomuVars, feeVars, commerceVars, adapterVars>>

(* Trader.makeOrder and Trader.takeOrder, await by await *)

\* the operation is suspended on a call it made
OpAwaiting(api) == [state |-> "awaiting", api |-> api]

\* a call the operation made has settled with this value
CallSettled(api, value) == [api |-> api, side |-> "unset", settled |-> value]

CallMade(api) == Event(api, "unset")

Awaiting(adapter, api) ==
  /\ request.adapter = adapter
  /\ response.state = "awaiting"
  /\ response.api = api

\* what follows approveAsset in the method that awaited it: makeOrder builds
\* the order and asks for its signature, takeOrder submits the fill
orderStep(method) ==
  IF method = "makeOrder"
  THEN <<CallMade("buildOrder"), CallMade("signOrder")>>
  ELSE <<CallMade("fillSignedOrder")>>

\* approveAsset once the approval status is loaded: an approved asset lets
\* the method go on, any other needs the approval transaction first
afterApprovalStatusIgnored(method, contractApproved) == orderStep(method)

afterApprovalStatus(method, contractApproved) ==
  IF contractApproved THEN orderStep(method)
  ELSE <<CallMade("approveTokenOrNftByAsset")>>

Last(seq) == seq[Len(seq)]

\* Trader.makeOrder up to its first await, in approveAsset
Trader_makeOrderBegin ==
  /\ Requested("trader", "makeOrder")
  /\ LET sync == traderMakeOrderSync(request.makerAssets, request.takerAssets)
     IN  IF sync # Ok
         THEN /\ trace' = <<>>
              /\ response' = OpThrew(sync)
         ELSE /\ trace' = <<CallMade("loadApprovalStatus")>>
              /\ response' = OpAwaiting("loadApprovalStatus")
  /\ UNCHANGED <<request, gomuVars, feeVars, commerceVars, adapterVars>>

\* Trader.takeOrder up to its first await, in approveAsset
Trader_takeOrderBegin ==
  /\ Requested("trader", "takeOrder")
  /\ IF request.originalOrder.sellOrBuyNft \in {"buy", "sell"}
     THEN /\ trace' = <<CallMade("loadApprovalStatus")>>
          /\ response' = OpAwaiting("loadApprovalStatus")
     ELSE /\ trace' = <<>>
          /\ response' = OpThrew("unknown side")
  /\ UNCHANGED <<request, gomuVars, feeVars, commerceVars, adapterVars>>

\* loadApprovalStatus settles
Trader_approvalStatusLoaded ==
  /\ Awaiting("trader", "loadApprovalStatus")
  /\ \E loaded \in {"approved", "not approved", "failed"} :
       IF loaded = "failed"
       THEN /\ trace' = Append(trace, CallSettled("loadApprovalStatus", loaded))
            /\ response' = OpThrew(ApiError)
       ELSE LET next == afterApprovalStatus(request.method, loaded = "approved")
            IN  /\ trace' = Append(trace, CallSettled("loadApprovalStatus", loaded)) \o next
                /\ response' = OpAwaiting(Last(next).api)
  /\ UNCHANGED <<request, gomuVars, feeVars, commerceVars, adapterVars>>

\* approveTokenOrNftByAsset settles: the approval transaction is submitted
Trader_approvalSubmitted ==
  /\ Awaiting("trader", "approveTokenOrNftByAsset")
  /\ \E ok \in BOOLEAN :
       IF ok
       THEN /\ trace' = trace \o <<CallSettled("approveTokenOrNftByAsset", "submitted"),
                                   CallMade("approvalTx.wait")>>
            /\ response' = OpAwaiting("approvalTx.wait")
       ELSE /\ trace' = Append(trace, CallSettled("approveTokenOrNftByAsset", "failed"))
            /\ response' = OpThrew(ApiError)
  /\ UNCHANGED <<request, gomuVars, feeVars, commerceVars, adapterVars>>

\* approvalTx.wait settles: approveAsset returns and the method goes on
Trader_approvalConfirmed ==
  /\ Awaiting("trader", "approvalTx.wait")
  /\ \E ok \in BOOLEAN :
       IF ok
       THEN LET next == orderStep(request.method)
            IN  /\ trace' = Append(trace, CallSettled("approvalTx.wait", "confirmed")) \o next
                /\ response' = OpAwaiting(Last(next).api)
       ELSE /\ trace' = Append(trace, CallSettled("approvalTx.wait", "failed"))
            /\ response' = OpThrew("transaction failed")
  /\ UNCHANGED <<request, gomuVars, feeVars, commerceVars, adapterVars>>

\* signOrder settles: the signed order is posted
Trader_orderSigned ==
  /\ Awaiting("trader", "signOrder")
  /\ \E ok \in BOOLEAN :
       IF ok
       THEN /\ trace' = trace \o <<CallSettled("signOrder", "signed"), CallMade("postOrder")>>
            /\ response' = OpAwaiting("postOrder")
       ELSE /\ trace' = Append(trace, CallSettled("signOrder", "failed"))
            /\ response' = OpThrew("signature refused")
  /\ UNCHANGED <<request, gomuVars, feeVars, commerceVars, adapterVars>>

\* postOrder settles: the posted order is normalized and returned
Trader_orderPosted ==
  /\ Awaiting("trader", "postOrder")
  /\ \E ok \in BOOLEAN :
       IF ok
       THEN /\ trace' = Append(trace, CallSettled("postOrder", "posted"))
            /\ \E postedOrder \in TraderOriginalOrders :
                 /\ postedOrder.sellOrBuyNft =
                      IF request.makerAssets[1].type = "ERC20" THEN "buy"
                      ELSE ORDER_SIDE_SELL_Trader
                 /\ postedOrder.nftType =
                      IF request.makerAssets[1].type = "ERC20"
                      THEN request.takerAssets[1].type
                      ELSE request.makerAssets[1].type
                 /\ postedOrder.nftTokenId = "7"
                 /\ postedOrder.nftTokenAmount = "1"
                 /\ response' = OpReturned(normalizeOrderTrader(postedOrder))
       ELSE /\ trace' = Append(trace, CallSettled("postOrder", "failed"))
            /\ response' = OpThrew(ApiError)
  /\ UNCHANGED <<request, gomuVars, feeVars, commerceVars, adapterVars>>

\* fillSignedOrder settles: the fill transaction is submitted
Trader_fillSubmitted ==
  /\ Awaiting("trader", "fillSignedOrder")
  /\ \E ok \in BOOLEAN :
       IF ok
       THEN /\ trace' = trace \o <<CallSettled("fillSignedOrder", "submitted"),
                                   CallMade("fillTx.wait")>>
            /\ response' = OpAwaiting("fillTx.wait")
       ELSE /\ trace' = Append(trace, CallSettled("fillSignedOrder", "failed"))
            /\ response' = OpThrew(ApiError)
  /\ UNCHANGED <<request, gomuVars, feeVars, commerceVars, adapterVars>>

\* fillTx.wait settles: takeOrder returns the receipt
Trader_fillConfirmed ==
  /\ Awaiting("trader", "fillTx.wait")
  /\ \E ok \in BOOLEAN :
       /\ trace' = Append(trace, CallSettled("fillTx.wait",
                                         IF ok THEN "confirmed" ELSE "failed"))
       /\ response' = IF ok THEN OpReturned("receipt")
                      ELSE OpThrew("transaction failed")
  /\ UNCHANGED <<request, gomuVars, feeVars, commerceVars, adapterVars>>

TraderRequests ==
  {[adapter |-> "trader", method |-> "makeOrder", makerAssets |-> p.makerAssets,
    takerAssets |-> p.takerAssets, taker |-> p.taker] : p \in MakeOrderParamsSet}
  \cup {[adapter |-> "trader", method |-> "takeOrder", originalOrder |-> o] :
          o \in TraderOriginalOrders}

\* the steps of Opensea.makeOrder after its synchronous part: the payment
\* token is looked up, then the sell or buy order is created
OpenseaMakeOrderSteps(side) ==
  <<Event("opensea.getPaymentTokens", "unset"),
    Event(IF side = "ask" THEN "seaport.createSellOrder"
          ELSE "seaport.createBuyOrder", side)>>

\* Opensea.makeOrder: whatever openseaMakeOrderSync throws is thrown with
\* nothing contacted; otherwise the steps run until one fails
Opensea_makeOrder ==
  /\ Requested("opensea", "makeOrder")
  /\ LET sync == openseaMakeOrderSync(request.makerAssets, request.takerAssets)
     IN  IF sync # Ok
         THEN /\ trace' = <<>>
              /\ response' = OpThrew(sync)
         ELSE LET isSell == request.makerAssets[1].type \in {"ERC721", "ERC1155"}
                  steps == OpenseaMakeOrderSteps(IF isSell THEN "ask" ELSE "bid")
              IN  \E done \in 1..Len(steps), failed \in BOOLEAN :
                    /\ failed \/ done = Len(steps)
                    /\ trace' = SubSeq(steps, 1, done)
                    /\ response' =
                         IF failed THEN OpThrew(ApiError)
                         ELSE OpReturned(normalizeOrderOpensea(
                                IF isSell THEN OpenseaListing ELSE OpenseaOffer))
  /\ UNCHANGED <<request, gomuVars, feeVars, commerceVars, adapterVars>>

\* the asset types a caller can hand over: the three the adapters trade,
\* Unknown, and an asset with no type at all
AnyAssetTypes == AssetTypes \cup {"Unknown", "undefined"}

AnyAssetLists == SeqsUpTo([type : AnyAssetTypes], MaxAssets)

AnyMakeOrderParamsSet ==
  [makerAssets : AnyAssetLists, takerAssets : AnyAssetLists, taker : BOOLEAN]

GetOrdersRequests ==
  {[adapter |-> a, method |-> "getOrders", makerAsset |-> p.makerAsset,
    takerAsset |-> p.takerAsset, maker |-> p.maker, taker |-> p.taker] :
     a \in {"looksrare", "opensea"}, p \in GetOrdersParamsSet}

LooksRareMakeOrderRequests ==
  {[adapter |-> "looksrare", method |-> "makeOrder", makerAssets |-> p.makerAssets,
    takerAssets |-> p.takerAssets, taker |-> p.taker] : p \in AnyMakeOrderParamsSet}

OpenseaMakeOrderRequests ==
  {[adapter |-> "opensea", method |-> "makeOrder", makerAssets |-> p.makerAssets,
    takerAssets |-> p.takerAssets, taker |-> p.taker] : p \in AnyMakeOrderParamsSet}

LooksRareTakeOrderRequests ==
  {[adapter |-> "looksrare", method |-> "takeOrder", originalOrder |-> o] :
     o \in LooksRareOriginalOrders}

OpsInit ==
  /\ \/ request \in NormalizeRequests
     \/ request \in GetOrdersRequests
     \/ request \in LooksRareMakeOrderRequests
     \/ request \in OpenseaMakeOrderRequests
     \/ request \in LooksRareTakeOrderRequests
     \/ request \in TraderRequests
  /\ trace = <<>>
  /\ response = NotRun

OpsIdle ==
  /\ request = NoRequest
  /\ trace = <<>>
  /\ response = NotRun

-----------------------------------------------------------------------------
(* Specifications *)

GomuIdle ==
  /\ chainId \in {1}
  /\ marketplaces = GomuConstructor(chainId)
  /\ instantiated = {m \in Adapters : InSeq(m, GomuConstructor(chainId))}
  /\ call = Idle
  /\ tasks = <<>>
  /\ promise = [m \in Adapters |-> NoPromise]
  /\ slot = [m \in Adapters |-> NoSlot]
  /\ invoked = NoInvocations
  /\ contacted = [m \in Adapters |-> FALSE]
  /\ outcome = NoOutcome
  /\ completed = <<>>

\* the Gomu facade
Init == GomuInit /\ FeesIdle /\ CommerceIdle /\ AdaptersIdle /\ OpsIdle

Next == GomuNext

Spec == Init /\ [][Next]_vars

\* calculateFees on bounded inputs
InitFees == GomuIdle /\ FeesInit /\ CommerceIdle /\ AdaptersIdle /\ OpsIdle

NextFees ==
  \/ calculateFeesCall
  \/ Trader_makeOrder

SpecFees == InitFees /\ [][NextFees]_vars

\* the CommerceSdk facade
InitCommerce == GomuIdle /\ FeesIdle /\ CommerceInit /\ AdaptersIdle /\ OpsIdle

NextCommerce ==
  \/ createSellOrders
  \/ createBuyOrders
  \/ getAssetOrders
  \/ fulfillOrder
  \/ commerceCancelOrder

SpecCommerce == InitCommerce /\ [][NextCommerce]_vars

\* each adapter's makeOrder on bounded params
InitAdapters == GomuIdle /\ FeesIdle /\ CommerceIdle /\ AdaptersInit /\ OpsIdle

NextAdapters ==
  \/ OpenseaMakeOrder
  \/ TraderMakeOrder
  \/ LooksRareMakeOrder
  \/ TraderV3MakeOrder

SpecAdapters == InitAdapters /\ [][NextAdapters]_vars

\* each adapter operation on bounded arguments
InitOps == GomuIdle /\ FeesIdle /\ CommerceIdle /\ AdaptersIdle /\ OpsInit

NextOps ==
  \/ Trader_normalizeOrder
  \/ Opensea_normalizeOrder
  \/ LooksRare_normalizeOrder
  \/ LooksRare_getOrders
  \/ Opensea_getOrders
  \/ LooksRare_makeOrder
  \/ Opensea_makeOrder
  \/ LooksRare_takeOrder
  \/ Trader_makeOrderBegin
  \/ Trader_takeOrderBegin
  \/ Trader_approvalStatusLoaded
  \/ Trader_approvalSubmitted
  \/ Trader_approvalConfirmed
  \/ Trader_orderSigned
  \/ Trader_orderPosted
  \/ Trader_fillSubmitted
  \/ Trader_fillConfirmed

SpecOps == InitOps /\ [][NextOps]_vars

-----------------------------------------------------------------------------
(* Properties of the Gomu facade *)

Settled(m) == slot[m].state \in {"fulfilled", "rejected"}

AllSettled == \A i \in 1..Len(tasks) : Settled(tasks[i])

ValidParams == adapterValidate(call.makerAssets, call.takerAssets) = Ok

BothErc20 ==
  /\ Len(call.makerAssets) = 1 /\ Len(call.takerAssets) = 1
  /\ call.makerAssets[1].type = "ERC20" /\ call.takerAssets[1].type = "ERC20"

IsErrorEntry(e) == "error" \in DOMAIN e

\* the selection the caller asked for, read off the call's arguments
Wanted(m) ==
  \/ ~call.marketplacesGiven
  \/ call.marketplaces = {}
  \/ m \in call.marketplaces

\* C1: for valid params Gomu.makeOrder never rejects; every adapter it
\* selected is invoked once whatever the others do; each settled adapter call
\* yields exactly one entry tagged with that adapter's name, carrying its order
\* on success and its thrown message on failure; once all have settled the
\* call has resolved with one entry per selected adapter.
C1_MakeOrderIsolatesFailures ==
  (call.op = "makeOrder" /\ ValidParams) =>
    /\ outcome.state # "rejected"
    /\ \A i \in 1..Len(tasks) :
         LET m == tasks[i] IN
         /\ invoked[m]["makeOrder"] = 1
         /\ slot[m].state # "rejected"
         /\ slot[m].state = "fulfilled" =>
              /\ Len(slot[m].entries) = 1
              /\ slot[m].entries[1].marketplaceName = m
              /\ promise[m].state = "fulfilled" =>
                   /\ ~IsErrorEntry(slot[m].entries[1])
                   /\ slot[m].entries[1].marketplaceOrder = promise[m].value[1]
              /\ promise[m].state = "rejected" =>
                   /\ IsErrorEntry(slot[m].entries[1])
                   /\ promise[m].err.kind = "Error" =>
                        slot[m].entries[1].error = promise[m].err.message
    /\ AllSettled =>
         /\ outcome.state = "resolved"
         /\ Len(outcome.entries) = Len(tasks)
         /\ \A i \in 1..Len(tasks) :
              outcome.entries[i] = slot[tasks[i]].entries[1]

\* C1 witness: trader threw "rate limited", opensea succeeded, and the call
\* resolved with opensea's order and trader's error entry
C1_Witness ==
  /\ call.op = "makeOrder" /\ ValidParams
  /\ tasks = <<"opensea", "trader">>
  /\ promise["opensea"].state = "fulfilled"
  /\ promise["trader"] = Rejected(ErrorOf("rate limited"))
  /\ outcome.state = "resolved"
  /\ Len(outcome.entries) = 2
  /\ ~IsErrorEntry(outcome.entries[1])
  /\ IsErrorEntry(outcome.entries[2])
  /\ outcome.entries[2].error = "rate limited"

C3_SingleTargetDispatch ==
  (call.op \in {"takeOrder", "cancelOrder"}) =>
    LET name == call.order.marketplaceName IN
    /\ \A m \in Adapters, k \in Methods :
         invoked[m][k] = IF m = name /\ k = call.op /\ InRegistry(name)
                         THEN 1 ELSE 0
    /\ \A m \in Adapters : m # name => ~contacted[m] /\ promise[m] = NoPromise
    /\ outcome.state = "resolved" =>
         /\ InRegistry(name)
         /\ Len(outcome.entries) = 1
         /\ outcome.entries[1].marketplaceName = name
    /\ ~InRegistry(name) =>
         /\ outcome = OutcomeRejected(ErrorOf("unknown marketplace"))
         /\ \A m \in Adapters : ~contacted[m]

\* C3 witness: a cancelOrder for a trader order, with opensea registered too,
\* resolved through trader alone
C3_Witness ==
  /\ call.op = "cancelOrder"
  /\ call.order.marketplaceName = "trader"
  /\ marketplaces = <<"opensea", "trader">>
  /\ invoked["trader"]["cancelOrder"] = 1
  /\ outcome.state = "resolved"

\* C4 (as claimed): Gomu.getOrders never rejects because an adapter's
\* getOrders threw; once all adapters have settled the call has resolved, a
\* failing adapter contributing an error entry under its name and the others
\* their orders.
C4_GetOrdersIsolatesFailures ==
  (call.op = "getOrders") =>
    /\ outcome.state # "rejected"
    /\ (\A i \in 1..Len(tasks) : promise[tasks[i]].state \in {"fulfilled", "rejected"}) =>
         /\ outcome.state = "resolved"
         /\ \A i \in 1..Len(tasks) :
              LET m == tasks[i] IN
              IF promise[m].state = "rejected"
              THEN \E j \in 1..Len(outcome.entries) :
                     /\ outcome.entries[j].marketplaceName = m
                     /\ IsErrorEntry(outcome.entries[j])
              ELSE \A o \in {promise[m].value[k] : k \in 1..Len(promise[m].value)} :
                     \E j \in 1..Len(outcome.entries) :
                       /\ outcome.entries[j].marketplaceName = m
                       /\ ~IsErrorEntry(outcome.entries[j])
                       /\ outcome.entries[j].marketplaceOrder = o

\* the entries one adapter's order list stands for in the response
TaggedOrders(m, orders) ==
  [i \in 1..Len(orders) |->
     [marketplaceName |-> m, marketplaceOrder |-> orders[i],
      normalizedOrder |-> [id |-> orders[i], marketplace |-> m]]]

\* C5: when every registered adapter returned its order list, an unfiltered
\* Gomu.getOrders has resolved with the concatenation of those lists in
\* registry order, each order tagged with the adapter that returned it.
C5_GetOrdersConcatenates ==
  (/\ call.op = "getOrders" /\ ~call.filter
   /\ \A i \in 1..Len(marketplaces) : promise[marketplaces[i]].state = "fulfilled") =>
    /\ outcome.state = "resolved"
    /\ outcome.entries =
         Flat([i \in 1..Len(marketplaces) |->
                 TaggedOrders(marketplaces[i], promise[marketplaces[i]].value)])

\* C5 witness: both adapters returned orders and the response holds them all
C5_Witness ==
  /\ call.op = "getOrders" /\ ~call.filter
  /\ marketplaces = <<"opensea", "trader">>
  /\ promise["opensea"] = Fulfilled(<<2, 1>>)
  /\ promise["trader"] = Fulfilled(<<1>>)
  /\ outcome.state = "resolved"
  /\ Len(outcome.entries) = 3

\* C6: Gomu.makeOrder invokes, once each, exactly the adapters that are
\* registered and selected (all registered ones when params.marketplaces is
\* absent or empty), and its response holds entries for exactly those.
C6_MakeOrderSelection ==
  (call.op = "makeOrder") =>
    /\ \A m \in Adapters :
         /\ InSeq(m, tasks) <=> (InRegistry(m) /\ Wanted(m))
         /\ invoked[m]["makeOrder"] = IF InRegistry(m) /\ Wanted(m) THEN 1 ELSE 0
         /\ ~(InRegistry(m) /\ Wanted(m)) => ~contacted[m] /\ promise[m] = NoPromise
    /\ outcome.state = "resolved" =>
         /\ Len(outcome.entries) = Cardinality({m \in Adapters : InRegistry(m) /\ Wanted(m)})
         /\ {outcome.entries[i].marketplaceName : i \in 1..Len(outcome.entries)}
              = {m \in Adapters : InRegistry(m) /\ Wanted(m)}

\* C6 witness: with both adapters registered and only trader selected, the
\* call resolved with trader's entry alone
C6_Witness ==
  /\ call.op = "makeOrder"
  /\ marketplaces = <<"opensea", "trader">>
  /\ call.marketplacesGiven /\ call.marketplaces = {"trader"}
  /\ invoked["opensea"]["makeOrder"] = 0
  /\ outcome.state = "resolved"
  /\ Len(outcome.entries) = 1
  /\ outcome.entries[1].marketplaceName = "trader"

\* C7: the registry holds an adapter for m iff m supports the facade's
\* chain, only those adapters were instantiated, and no operation changes the
\* registry.
C7_RegistryFollowsChainSupport ==
  /\ [](\A m \in Adapters :
          /\ InRegistry(m) <=> supportsChainId(m, chainId)
          /\ m \in instantiated <=> supportsChainId(m, chainId))
  /\ [][marketplaces' = marketplaces /\ chainId' = chainId]_vars

\* C7 witness: on chain 3 only trader is registered, and still after a
\* getOrders has resolved
C7_Witness ==
  /\ chainId = 3
  /\ marketplaces = <<"trader">>
  /\ call.op = "getOrders"
  /\ outcome.state = "resolved"

-----------------------------------------------------------------------------
(* Properties of CommerceSdk *)

\* C8 (as claimed): when the traderxyz adapter threw during construction,
\* the facade was still constructed with the error recorded and the opensea
\* SDK in place, and no later operation calls into the traderxyz SDK.
C8_FailedAdapterNeverDispatched ==
  (sdk.chainId # 0 /\ TraderxyzSdkThrows(sdk.chainId) /\ csOp.name # "none") =>
    /\ sdk.constructed = "ok"
    /\ sdk.traderxyzSdk.error
    /\ "opensea" \in sdk.sdkMapping
    /\ \A c \in csCalls : c[1] # "traderxyz"

-----------------------------------------------------------------------------
(* Properties of calculateFees and of Trader.makeOrder with fees *)

Called == feeResult.state # "none"

AllBasisPoints(fs) ==
  \A i \in 1..Len(fs) : fs[i].kind = "basisPoints" /\ fs[i].value >= 1

RECURSIVE SumOfValues(_)
SumOfValues(fs) ==
  IF Len(fs) = 0 THEN 0 ELSE Head(fs).value + SumOfValues(Tail(fs))

\* floor(B * S / 10000), on B = q * 10000 + r
FloorShare(B, S) ==
  (B \div 10000) * S + ((B % 10000) * S) \div 10000

\* C9 (as claimed): for basis-point fees summing to S < 10000, calculateFees
\* returns a total of floor(B * S / 10000), which is less than B.
C9_BasisPointTotalIsFloor ==
  (Called /\ AllBasisPoints(fees) /\ SumOfValues(fees) < 10000) =>
    /\ feeResult.state = "returned"
    /\ feeResult.totalFeesAmount = FloorShare(amount, SumOfValues(fees))
    /\ feeResult.totalFeesAmount < amount

\* the flat amount a fee stands for, by the floor rule
FlatFloor(fee, B) ==
  IF fee.kind = "amount" THEN fee.value ELSE FloorShare(B, fee.value)

RECURSIVE SumFloor(_, _)
SumFloor(fs, B) ==
  IF Len(fs) = 0 THEN 0 ELSE FlatFloor(Head(fs), B) + SumFloor(Tail(fs), B)

\* a fee list that breaks the Fee invariant against base amount B
ViolatesFeeInvariant(fs, B) ==
  \/ \E i \in 1..Len(fs) : fs[i].kind = "amount" /\ fs[i].value >= B
  \/ \E i \in 1..Len(fs) :
       fs[i].kind = "basisPoints" /\ ~(fs[i].value >= 1 /\ fs[i].value <= 9999)
  \/ /\ \A i \in 1..Len(fs) :
          fs[i].kind = "basisPoints" => (fs[i].value >= 1 /\ fs[i].value <= 9999)
     /\ SumFloor(fs, B) >= B

AllValidFees(fs, B) ==
  /\ \A i \in 1..Len(fs) :
       IF fs[i].kind = "amount" THEN fs[i].value >= 1 /\ fs[i].value < B
       ELSE fs[i].value >= 1 /\ fs[i].value <= 9999
  /\ SumFloor(fs, B) < B

\* C11 (as claimed): for a fee list whose entries are all valid, calculateFees
\* returns one flat-amount fee per input fee, in input order and with the same
\* recipient, an amount fee unchanged and a basis-point fee as
\* floor(B * basisPoints / 10000).
C11_ValidFeesConverted ==
  (Called /\ AllValidFees(fees, amount)) =>
    /\ feeResult.state = "returned"
    /\ Len(feeResult.flatAmountFees) = Len(fees)
    /\ \A i \in 1..Len(fees) :
         /\ feeResult.flatAmountFees[i].recipient = fees[i].recipient
         /\ feeResult.flatAmountFees[i].amount = FlatFloor(fees[i], amount)

\* C12 (as claimed): Trader.makeOrder given a valid non-empty fee list and a
\* fungible amount B does not fail on the fees, and the order it posts has the
\* fungible leg's amount equal to B minus the total of the computed fees.
C12_OrderAmountNetOfFees ==
  (traderOrder.state # "none" /\ Len(fees) > 0 /\ AllValidFees(fees, amount)) =>
    /\ traderOrder.stage # "fees"
    /\ traderOrder.state = "posted" =>
         traderOrder.erc20Amount = amount - SumFloor(fees, amount)

-----------------------------------------------------------------------------
(* Properties of the adapters' validation *)

\* the adapters whose makeOrder calls the shared validators
Validating == {"opensea", "trader", "looksrare"}

Invoked(a) == result[a].state # "none"

\* LooksRare refuses a targeted taker before it validates anything
TakerRefused(a) == a = "looksrare" /\ params.taker

Bundled == Len(params.makerAssets) > 1 \/ Len(params.takerAssets) > 1

NeitherEmpty == Len(params.makerAssets) > 0 /\ Len(params.takerAssets) > 0

\* C13 (as claimed): every makeOrder call in which makerAssets or takerAssets
\* has more than one element is rejected with "bundled assets are not
\* supported", before any marketplace call.
C13_BundledRejected ==
  \A a \in Validating :
    (Invoked(a) /\ Bundled) =>
      result[a] = AdapterThrew("bundled assets are not supported")

\* C13 (amended): a makeOrder call of Opensea, Trader or LooksRare in which
\* neither side is empty and one side has more than one element is rejected
\* with "bundled assets are not supported" before any marketplace call,
\* whatever the asset types, unless LooksRare is given a targeted taker.
C13_BundledRejectedWhenNeitherEmpty ==
  \A a \in Validating :
    (Invoked(a) /\ Bundled /\ NeitherEmpty /\ ~TakerRefused(a)) =>
      result[a] = AdapterThrew("bundled assets are not supported")

\* C13 witness: Opensea and LooksRare both rejected two maker assets offered
\* for one taker asset
C13_Witness ==
  /\ Len(params.makerAssets) = 2 /\ Len(params.takerAssets) = 1
  /\ ~params.taker
  /\ result["opensea"] = AdapterThrew("bundled assets are not supported")
  /\ result["looksrare"] = AdapterThrew("bundled assets are not supported")

\* the error of the first check that fails, the checks taken in the order
\* not-empty(maker), not-empty(taker), not-bundled(maker), not-bundled(taker),
\* not-fungible-vs-fungible, not-non-fungible-vs-non-fungible; Ok when none
\* fails
FirstFailure(mk, tk) ==
  LET Nft == {"ERC721", "ERC1155"}
      checks ==
        << IF Len(mk) = 0 THEN "maker assets cannot be empty" ELSE Ok,
           IF Len(tk) = 0 THEN "taker assets cannot be empty" ELSE Ok,
           IF Len(mk) > 1 THEN "bundled assets are not supported" ELSE Ok,
           IF Len(tk) > 1 THEN "bundled assets are not supported" ELSE Ok,
           IF Len(mk) > 0 /\ Len(tk) > 0 /\ mk[1].type = "ERC20" /\ tk[1].type = "ERC20"
             THEN "ERC20 <-> ERC20 is not supported" ELSE Ok,
           IF Len(mk) > 0 /\ Len(tk) > 0 /\ mk[1].type \in Nft /\ tk[1].type \in Nft
             THEN "ERC712/ERC1155 <-> ERC712/ERC1155 is not supported" ELSE Ok >>
      failing == {i \in 1..Len(checks) : checks[i] # Ok}
  IN IF failing = {} THEN Ok
     ELSE checks[CHOOSE i \in failing : \A j \in failing : i <= j]

\* C14 (as claimed): an adapter's makeOrder reports, for an invalid input, the
\* error of the first validator that fails in the fixed order, and reports it
\* before any marketplace interaction.
C14_FirstFailingValidatorReported ==
  \A a \in Validating :
    (Invoked(a) /\ FirstFailure(params.makerAssets, params.takerAssets) # Ok) =>
      result[a] = AdapterThrew(FirstFailure(params.makerAssets, params.takerAssets))

\* C14 (amended): the makeOrder of Opensea, Trader and LooksRare runs the
\* validators in the fixed order before any marketplace interaction, so the
\* error reported for an invalid input is that of the first validator that
\* fails, except that LooksRare given a targeted taker refuses the taker
\* before it runs any validator.
C14_FirstFailingValidatorUnlessTakerRefused ==
  \A a \in Validating :
    (/\ Invoked(a) /\ ~TakerRefused(a)
     /\ FirstFailure(params.makerAssets, params.takerAssets) # Ok) =>
      result[a] = AdapterThrew(FirstFailure(params.makerAssets, params.takerAssets))

\* C14 witness: Trader, given two maker assets and no taker asset, reported
\* the empty taker side, not the bundle
C14_Witness ==
  /\ Len(params.makerAssets) = 2 /\ Len(params.takerAssets) = 0
  /\ result["trader"] = AdapterThrew("taker assets cannot be empty")

\* one non-fungible asset offered for one non-fungible asset
NftForNft ==
  /\ Len(params.makerAssets) = 1 /\ Len(params.takerAssets) = 1
  /\ params.makerAssets[1].type \in {"ERC721", "ERC1155"}
  /\ params.takerAssets[1].type \in {"ERC721", "ERC1155"}

StructurallyInvalid ==
  \/ ~NeitherEmpty
  \/ Bundled
  \/ NftForNft
  \/ /\ params.makerAssets[1].type = "ERC20"
     /\ params.takerAssets[1].type = "ERC20"

\* C16 (as claimed): every adapter rejects a structurally invalid input, and
\* any two adapters reject it with the same message, whatever taker is.
C16_ValidationUniform ==
  StructurallyInvalid =>
    \A a, b \in AdapterKinds :
      (Invoked(a) /\ Invoked(b)) =>
        result[a].state = "threw" /\ result[a] = result[b]

\* C16 (amended): Opensea, Trader and LooksRare each reject a structurally
\* invalid input, and any two of them with the same message, whatever taker
\* is for Opensea and Trader and when no taker is targeted for LooksRare,
\* which otherwise refuses the taker first; TraderV3 calls no validator and
\* rejects no input on these grounds.
C16_ValidationUniformAmongValidating ==
  StructurallyInvalid =>
    /\ \A a, b \in Validating :
         (Invoked(a) /\ Invoked(b) /\ ~TakerRefused(a) /\ ~TakerRefused(b)) =>
           result[a].state = "threw" /\ result[a] = result[b]
    /\ Invoked("traderV3") => result["traderV3"] = AdapterAwaiting

\* C16 witness: with no taker targeted, Opensea, Trader and LooksRare all
\* rejected an ERC20 offered for an ERC20 with the same message, and TraderV3
\* went on to its approvals
C16_Witness ==
  /\ params.makerAssets = <<[type |-> "ERC20"]>>
  /\ params.takerAssets = <<[type |-> "ERC20"]>>
  /\ ~params.taker
  /\ \A a \in Validating : result[a] = AdapterThrew("ERC20 <-> ERC20 is not supported")
  /\ result["traderV3"] = AdapterAwaiting

-----------------------------------------------------------------------------
(* Further properties of the Gomu facade *)

\* C17 (as claimed): takeOrder and cancelOrder given an order that carries no
\* successful payload fail with the lookup error and invoke no adapter.
C17_NoPayloadFailsLookup ==
  (call.op \in {"takeOrder", "cancelOrder"} /\ ~call.order.hasOrder) =>
    /\ \A m \in Adapters, k \in Methods : invoked[m][k] = 0
    /\ outcome = OutcomeRejected(ErrorOf("unknown marketplace"))

\* the position of adapter m in the registry
RegistryIndex(m) == CHOOSE i \in 1..Len(marketplaces) : marketplaces[i] = m

\* C18: whatever the order in which the adapters' calls complete, the array
\* Gomu.makeOrder resolves with holds one entry per selected adapter, in the
\* iteration order of the registry.
C18_EntriesInRegistryOrder ==
  (call.op = "makeOrder" /\ outcome.state = "resolved") =>
    /\ Len(outcome.entries) = Len(tasks)
    /\ \A i \in 1..Len(outcome.entries) :
         /\ InRegistry(outcome.entries[i].marketplaceName)
         /\ outcome.entries[i].marketplaceName = tasks[i]
    /\ \A i, j \in 1..Len(outcome.entries) :
         i < j => RegistryIndex(outcome.entries[i].marketplaceName)
                    < RegistryIndex(outcome.entries[j].marketplaceName)

\* C18 witness: trader's call completed before opensea's, and opensea's entry
\* still comes first
C18_Witness ==
  /\ call.op = "makeOrder"
  /\ marketplaces = <<"opensea", "trader">>
  /\ completed = <<"trader", "opensea">>
  /\ outcome.state = "resolved"
  /\ outcome.entries[1].marketplaceName = "opensea"
  /\ outcome.entries[2].marketplaceName = "trader"

FanOut == call.op \in {"makeOrder", "getOrders"}

\* C19: in a fan-out every selected adapter's call has been issued by the time
\* the facade suspends, so already while no call has completed, and the
\* completion of one adapter's call starts no other adapter's call.
C19_AllCallsIssuedBeforeSuspending ==
  /\ [](FanOut =>
          \A i \in 1..Len(tasks) :
            /\ invoked[tasks[i]][call.op] = 1
            /\ promise[tasks[i]].state # "none")
  /\ [][(FanOut /\ call' = call) => invoked' = invoked]_vars

\* C19 witness: opensea's makeOrder has failed and been handled while
\* trader's, issued at the same time, is still pending
C19_Witness ==
  /\ call.op = "makeOrder"
  /\ tasks = <<"opensea", "trader">>
  /\ completed = <<"opensea">>
  /\ promise["opensea"].state = "rejected"
  /\ invoked["trader"]["makeOrder"] = 1
  /\ promise["trader"] = Pending

\* C20 (as claimed): the error an adapter's thrown value is turned into has,
\* as its message, the value's message property whenever the value has one,
\* Error instance or not, and a string serialization of the value otherwise.
C20_ThrownValueNormalized ==
  (call.op = "makeOrder") =>
    \A i \in 1..Len(tasks) :
      LET m == tasks[i] IN
      (slot[m].state = "fulfilled" /\ promise[m].state = "rejected") =>
        /\ IsErrorEntry(slot[m].entries[1])
        /\ slot[m].entries[1].error =
             IF promise[m].err.hasMessage THEN promise[m].err.message
             ELSE promise[m].err.text

\* what a call of makeOrder with the given sides and the wrapper's remaining
\* parameters does: the params the adapters get, the adapters called, and
\* how each adapter's makeOrder begins
BehavesAsMakeOrder(makerAssets, takerAssets) ==
  /\ call.makerAssets = makerAssets
  /\ call.takerAssets = takerAssets
  /\ call.taker = call.rest.taker
  /\ call.marketplacesGiven = call.rest.marketplacesGiven
  /\ call.marketplaces = call.rest.marketplaces
  /\ tasks = SelectSeq(marketplaces,
                       LAMBDA m : \/ ~call.rest.marketplacesGiven
                                  \/ call.rest.marketplaces = {}
                                  \/ m \in call.rest.marketplaces)
  /\ \A i \in 1..Len(tasks) :
       LET m == tasks[i]
           sync == adapterMakeOrderSync(m, makerAssets, takerAssets)
       IN /\ invoked[m]["makeOrder"] = 1
          /\ contacted[m] <=> sync = Ok
          /\ sync # Ok => promise[m] = Rejected(ErrorOf(sync))

\* C21: makeSellOrder behaves as makeOrder with makerAssets = assets and
\* takerAssets = [the ERC20 asset], makeBuyOrder as makeOrder with the sides
\* exchanged, and both pass taker and marketplaces through unchanged.
C21_SellBuyWrappersDelegate ==
  /\ (call.op = "makeOrder" /\ call.via = "makeSellOrder") =>
       BehavesAsMakeOrder(call.assets, <<[type |-> "ERC20"]>>)
  /\ (call.op = "makeOrder" /\ call.via = "makeBuyOrder") =>
       BehavesAsMakeOrder(<<[type |-> "ERC20"]>>, call.assets)

\* C21 witness: makeSellOrder of one ERC721 for trader only, with a taker,
\* resolved with trader's order
C21_Witness ==
  /\ call.op = "makeOrder" /\ call.via = "makeSellOrder"
  /\ call.assets = <<[type |-> "ERC721"]>>
  /\ call.rest = [taker |-> TRUE, marketplacesGiven |-> TRUE,
                  marketplaces |-> {"trader"}]
  /\ tasks = <<"trader">>
  /\ outcome.state = "resolved"
  /\ ~IsErrorEntry(outcome.entries[1])

-----------------------------------------------------------------------------
(* Properties of the adapters' normalizeOrder *)

Normalized == request.method = "normalizeOrder" /\ response.state = "returned"

\* the marketplace's side signal of the native order
SideSignalSell ==
  CASE request.adapter = "trader" ->
         request.order.sellOrBuyNft = ORDER_SIDE_SELL_Trader
    [] request.adapter = "opensea" ->
         request.order.side = ORDER_SIDE_SELL_Opensea
    [] request.adapter = "looksrare" -> request.order.isOrderAsk

\* the price the native order carries, as the adapter converts it
PriceOf ==
  CASE request.adapter = "trader" -> BigInt(request.order.erc20TokenAmount)
    [] request.adapter = "opensea" -> BigInt(request.order.currentPrice)
    [] request.adapter = "looksrare" -> request.order.price

IsFungibleLeg(assets) ==
  /\ Len(assets) = 1
  /\ assets[1].type = "ERC20"
  /\ assets[1].amount = PriceOf

IsNonFungibleLeg(assets) ==
  /\ Len(assets) > 0
  /\ \A i \in 1..Len(assets) :
       /\ "type" \in DOMAIN assets[i] => assets[i].type # "ERC20"
       /\ assets[i].contractAddress = NftContract
       /\ assets[i].tokenId \in TokenIds

\* C22: every adapter's normalizeOrder takes sell or buy from the
\* marketplace's side signal; for a sell order the non-fungible leg is
\* makerAssets and the single ERC20 leg with the price is takerAssets, for a
\* buy order the reverse
C22_LegsPlacedBySide ==
  Normalized =>
    /\ response.value.isSellOrder = SideSignalSell
    /\ IF SideSignalSell
       THEN /\ IsNonFungibleLeg(response.value.makerAssets)
            /\ IsFungibleLeg(response.value.takerAssets)
       ELSE /\ IsFungibleLeg(response.value.makerAssets)
            /\ IsNonFungibleLeg(response.value.takerAssets)

C22_Witness ==
  /\ Normalized
  /\ request.adapter = "opensea"
  /\ ~SideSignalSell
  /\ Len(request.order.consideration) = 2
  /\ response.value.takerAssets[1].type = "ERC1155"

\* what an Opensea item type or a Trader nftType says the item is
ItemClassOpensea(itemType) ==
  CASE itemType = ItemType_ERC20 -> "ERC20"
    [] itemType = ItemType_ERC721 -> "ERC721"
    [] itemType = ItemType_ERC1155 -> "ERC1155"
    [] itemType = ItemType_ERC721_WITH_CRITERIA -> "ERC721 with criteria"
    [] itemType = ItemType_ERC1155_WITH_CRITERIA -> "ERC1155 with criteria"
    [] OTHER -> "other"

ItemClassTrader(nftType) ==
  IF nftType \in {"ERC20", "ERC721", "ERC1155"} THEN nftType ELSE "other"

WithClass(item) ==
  [class |-> ItemClassOpensea(item.itemType), token |-> item.token,
   identifierOrCriteria |-> item.identifierOrCriteria,
   endAmount |-> item.endAmount]

\* the native items of the non-fungible leg, in the order of the assets
\* normalizeOrder returns for them
NativeNftItems ==
  IF request.adapter = "opensea"
  THEN LET kept == SelectSeq(IF SideSignalSell THEN request.order.offer
                             ELSE request.order.consideration, IsNotErc20Item)
       IN  [i \in 1..Len(kept) |-> WithClass(kept[i])]
  ELSE <<[class |-> ItemClassTrader(request.order.nftType),
          token |-> request.order.nftToken,
          identifierOrCriteria |-> request.order.nftTokenId,
          endAmount |-> request.order.nftTokenAmount]>>

NormalizedNftAssets ==
  IF SideSignalSell THEN response.value.makerAssets
  ELSE response.value.takerAssets

CleanItemTypes == {"ERC20", "ERC721", "ERC1155"}

CriteriaItemTypes == {"ERC721 with criteria", "ERC1155 with criteria"}

IsUnknownOf(asset, item) ==
  /\ asset.type = "Unknown"
  /\ asset.contractAddress = item.token
  /\ asset.tokenId = item.identifierOrCriteria
  /\ asset.amount = BigInt(item.endAmount)

NormalizeRan ==
  /\ request.method = "normalizeOrder"
  /\ request.adapter \in {"opensea", "trader"}
  /\ response.state # "none"

\* C23 as claimed: normalizing never fails on an item whose type is not one
\* of ERC20, ERC721, ERC1155; every such item, criteria-based ones included,
\* becomes an asset of type Unknown with the item's contractAddress, tokenId
\* and amount
C23_UncleanItemsBecomeUnknown ==
  NormalizeRan =>
    /\ response.state = "returned"
    /\ Len(NormalizedNftAssets) = Len(NativeNftItems)
    /\ \A i \in 1..Len(NativeNftItems) :
         NativeNftItems[i].class \notin CleanItemTypes =>
           IsUnknownOf(NormalizedNftAssets[i], NativeNftItems[i])

\* C23 as the code has it: normalizing never fails on such an item; a
\* criteria-based ERC721 or ERC1155 item becomes an ERC721 or ERC1155 asset
\* whose tokenId is the criteria, and every other item that is not ERC20,
\* ERC721 or ERC1155 becomes an asset of type Unknown with the item's
\* contractAddress, tokenId and amount
C23_UncleanItemsBecomeUnknownExceptCriteria ==
  NormalizeRan =>
    /\ response.state = "returned"
    /\ Len(NormalizedNftAssets) = Len(NativeNftItems)
    /\ \A i \in 1..Len(NativeNftItems) :
         LET item == NativeNftItems[i]
             asset == NormalizedNftAssets[i]
         IN  /\ item.class \notin CleanItemTypes \cup CriteriaItemTypes =>
                  IsUnknownOf(asset, item)
             /\ item.class \in CriteriaItemTypes =>
                  /\ asset.type = IF item.class = "ERC721 with criteria"
                                  THEN "ERC721" ELSE "ERC1155"
                  /\ asset.contractAddress = item.token
                  /\ asset.tokenId = item.identifierOrCriteria

C23_Witness ==
  /\ NormalizeRan
  /\ request.adapter = "opensea"
  /\ request.order.offer[1].itemType = ItemType_NATIVE
  /\ response.state = "returned"
  /\ response.value.makerAssets[1].type = "Unknown"

-----------------------------------------------------------------------------
(* Properties of the adapters' getOrders, makeOrder and takeOrder *)

\* getOrders of LooksRare or Opensea has run, and was not answered with []
\* for its taker filter
GetOrdersRan ==
  /\ request.method = "getOrders"
  /\ response.state # "none"
  /\ ~(request.adapter = "looksrare" /\ request.taker)

\* the operation made exactly one call, and it carried this side
QueriedOnce(side) == Len(trace) = 1 /\ trace[1].side = side

IsNft(asset) == asset.type \in {"ERC721", "ERC1155"}

\* C24 as claimed: getOrders queries sell listings whenever the filter's
\* takerAsset is ERC20 and buy orders whenever the filter's makerAsset is
\* ERC20, also when the asset of the other side is not given
C24_SideFromFungibleAsset ==
  GetOrdersRan =>
    /\ (request.takerAsset.type = "ERC20" /\ request.makerAsset.type # "ERC20")
         => QueriedOnce("ask")
    /\ (request.makerAsset.type = "ERC20" /\ request.takerAsset.type # "ERC20")
         => QueriedOnce("bid")

\* C24 as the code has it: getOrders queries sell listings when makerAsset
\* is ERC721 or ERC1155 and takerAsset is ERC20 or not given, buy orders
\* when takerAsset is ERC721 or ERC1155 and makerAsset is ERC20 or not
\* given, and with any other asset filter (a lone ERC20 asset included) it
\* throws "unsupported operation" without a query
C24_SideFromNonFungibleAsset ==
  GetOrdersRan /\ (request.makerAsset # NoAsset \/ request.takerAsset # NoAsset) =>
    IF IsNft(request.makerAsset) /\ request.takerAsset.type \in {"none", "ERC20"}
    THEN QueriedOnce("ask")
    ELSE IF IsNft(request.takerAsset) /\ request.makerAsset.type \in {"none", "ERC20"}
    THEN QueriedOnce("bid")
    ELSE trace = <<>> /\ response = OpThrew("unsupported operation")

C24_Witness ==
  /\ GetOrdersRan
  /\ request.adapter = "opensea"
  /\ request.makerAsset = NoAsset
  /\ request.takerAsset.type = "ERC1155"
  /\ QueriedOnce("bid")
  /\ response.state = "returned"
  /\ Len(response.value) = 1

C24_WitnessLoneErc20 ==
  /\ GetOrdersRan
  /\ request.adapter = "looksrare"
  /\ request.makerAsset = NoAsset
  /\ request.takerAsset.type = "ERC20"
  /\ response = OpThrew("unsupported operation")

\* C25: given a taker address, LooksRare.makeOrder rejects with "targeted
\* taker unsupported in looksrare" and LooksRare.getOrders resolves to an
\* empty list, and neither fetches a nonce, signs, posts or fetches orders
C25_TakerNeverContactsLooksRare ==
  /\ request.adapter = "looksrare"
  /\ request.method \in {"makeOrder", "getOrders"}
  /\ request.taker
  /\ response.state # "none"
  => /\ trace = <<>>
     /\ request.method = "makeOrder" =>
          response = OpThrew("targeted taker unsupported in looksrare")
     /\ request.method = "getOrders" => response = OpReturned(<<>>)

C25_Witness ==
  /\ request.adapter = "looksrare"
  /\ request.method = "makeOrder"
  /\ request.taker
  /\ Len(request.makerAssets) = 1 /\ request.makerAssets[1].type = "ERC721"
  /\ Len(request.takerAssets) = 1 /\ request.takerAssets[1].type = "ERC20"
  /\ response = OpThrew("targeted taker unsupported in looksrare")

C25_WitnessGetOrders ==
  /\ request.adapter = "looksrare"
  /\ request.method = "getOrders"
  /\ request.taker
  /\ request.makerAsset.type = "ERC721"
  /\ response = OpReturned(<<>>)

\* C26: LooksRare.takeOrder builds a taker order of the side opposite to the
\* maker order's and calls exactly one exchange method with it:
\* matchAskWithTakerBid for a maker ask, matchBidWithTakerAsk for a maker bid
C26_TakerOrderOppositeSide ==
  /\ request.adapter = "looksrare"
  /\ request.method = "takeOrder"
  /\ response.state # "none"
  => /\ Len(trace) = 1
     /\ trace[1] = IF request.originalOrder.isOrderAsk
                   THEN Event("exchange.matchAskWithTakerBid", "bid")
                   ELSE Event("exchange.matchBidWithTakerAsk", "ask")

C26_Witness ==
  /\ request.adapter = "looksrare"
  /\ request.method = "takeOrder"
  /\ ~request.originalOrder.isOrderAsk
  /\ response = OpReturned("receipt")
  /\ trace = <<Event("exchange.matchBidWithTakerAsk", "ask")>>

-----------------------------------------------------------------------------
(* Properties of Trader.makeOrder and Trader.takeOrder *)

TraderRan ==
  /\ request.adapter = "trader"
  /\ request.method \in {"makeOrder", "takeOrder"}

InTrace(e) == \E i \in 1..Len(trace) : trace[i] = e

OrderSteps ==
  {CallMade("buildOrder"), CallMade("signOrder"), CallMade("postOrder"),
   CallMade("fillSignedOrder")}

ApprovalFailures ==
  {CallSettled("loadApprovalStatus", "failed"),
   CallSettled("approveTokenOrNftByAsset", "failed"),
   CallSettled("approvalTx.wait", "failed")}

\* the asset was found approved, or its approval transaction was confirmed,
\* before position i of the trace
ApprovedBefore(i) ==
  \E j \in 1..(i - 1) :
    \/ trace[j] = CallSettled("loadApprovalStatus", "approved")
    \/ trace[j] = CallSettled("approvalTx.wait", "confirmed")

\* C27: in Trader.makeOrder and Trader.takeOrder an approval transaction is
\* submitted exactly when the loaded approval status is not approved; the
\* order is built, signed and posted, or the fill submitted, only after the
\* asset was found approved or its approval transaction was confirmed; and
\* when the approval check or transaction fails the call throws without
\* posting an order or submitting a fill
C27_ApprovalPrecedesOrder ==
  TraderRan =>
    /\ InTrace(CallMade("approveTokenOrNftByAsset"))
         <=> InTrace(CallSettled("loadApprovalStatus", "not approved"))
    /\ \A i \in 1..Len(trace) :
         trace[i] \in OrderSteps =>
           /\ ApprovedBefore(i)
           /\ InTrace(CallMade("approveTokenOrNftByAsset"))
                => \E j \in 1..(i - 1) : trace[j] = CallSettled("approvalTx.wait", "confirmed")
    /\ (\E f \in ApprovalFailures : InTrace(f)) =>
         /\ response.state = "threw"
         /\ \A i \in 1..Len(trace) : trace[i] \notin OrderSteps

C27_Witness ==
  /\ TraderRan
  /\ request.method = "makeOrder"
  /\ InTrace(CallSettled("loadApprovalStatus", "not approved"))
  /\ InTrace(CallSettled("approvalTx.wait", "confirmed"))
  /\ InTrace(CallSettled("postOrder", "posted"))
  /\ response.state = "returned"

C27_WitnessTake ==
  /\ TraderRan
  /\ request.method = "takeOrder"
  /\ InTrace(CallSettled("approvalTx.wait", "failed"))
  /\ response.state = "threw"

-----------------------------------------------------------------------------
(* Further properties of CommerceSdk *)

CreateOrderInvoked == \E c \in csCalls : c[2] = "createOrder"

\* C28: in createSellOrders as in createBuyOrders, the approval the facade
\* itself starts has completed (or had nothing to do) before any platform's
\* createOrder is invoked
C28_ApprovalCompleteBeforeCreateOrder ==
  /\ csOp.name \in {"createSellOrders", "createBuyOrders"}
  /\ CreateOrderInvoked
  => csApproval \in {"completed", "skipped"}

\* createBuyOrders alone keeps that order
C28_BuyApprovalCompleteBeforeCreateOrder ==
  /\ csOp.name = "createBuyOrders"
  /\ CreateOrderInvoked
  => csApproval \in {"completed", "skipped"}

C28_Witness ==
  /\ csOp.name = "createBuyOrders"
  /\ CreateOrderInvoked
  /\ csApproval = "completed"

-----------------------------------------------------------------------------
(* Settlement of Gomu.makeOrder *)

AdapterCallPending(m) == promise[m].state = "pending"

\* C29: the result of Gomu.makeOrder is available exactly when every
\* selected adapter call has settled and its callback has returned its
\* entry; while a selected adapter call is pending the facade call is
\* pending, and it never rejects
C29_ResultExactlyWhenAllSettled ==
  call.op = "makeOrder" =>
    /\ outcome.state = "resolved" <=> AllSettled
    /\ outcome.state # "rejected"
    /\ (\E i \in 1..Len(tasks) : AdapterCallPending(tasks[i]))
         => outcome.state = "pending"

C29_Witness ==
  /\ call.op = "makeOrder"
  /\ Len(tasks) = 2
  /\ AdapterCallPending(tasks[1])
  /\ Settled(tasks[2])
  /\ slot[tasks[2]].state = "fulfilled"
  /\ outcome.state = "pending"

C29_WitnessResolved ==
  /\ call.op = "makeOrder"
  /\ Len(tasks) = 2
  /\ AllSettled
  /\ completed = <<tasks[2], tasks[1]>>
  /\ outcome.state = "resolved"

-----------------------------------------------------------------------------
(* Properties of the asset pairs Opensea and LooksRare trade *)

\* makeOrder of Opensea or LooksRare has run on one maker and one taker
\* asset that the four validators let through
ValidatedPairRan ==
  /\ request.method = "makeOrder"
  /\ request.adapter \in {"opensea", "looksrare"}
  /\ response.state # "none"
  /\ adapterValidate(request.makerAssets, request.takerAssets) = Ok

\* one leg is ERC20 and the other ERC721 or ERC1155
TradablePair ==
  \/ /\ request.makerAssets[1].type = "ERC20"
     /\ request.takerAssets[1].type \in {"ERC721", "ERC1155"}
  \/ /\ request.makerAssets[1].type \in {"ERC721", "ERC1155"}
     /\ request.takerAssets[1].type = "ERC20"

PairHandled ==
  /\ trace # <<>> <=> TradablePair
  /\ ~TradablePair => response = OpThrew("unsupported operation")

\* C30 as claimed: for every maker/taker pair that passes the four
\* validators, makeOrder of Opensea and LooksRare contacts the marketplace
\* exactly when one leg is ERC20 and the other ERC721 or ERC1155, and rejects
\* every other pair with "unsupported operation" before any network call
C30_OnlyTradablePairsContact ==
  ValidatedPairRan => PairHandled

\* C30 as the code has it: the same, except that LooksRare given a taker
\* refuses the call before it looks at the assets
C30_OnlyTradablePairsContactUnlessTakerRefused ==
  ValidatedPairRan =>
    IF request.adapter = "looksrare" /\ request.taker
    THEN trace = <<>> /\ response = OpThrew("targeted taker unsupported in looksrare")
    ELSE PairHandled

C30_Witness ==
  /\ ValidatedPairRan
  /\ request.adapter = "looksrare"
  /\ ~request.taker
  /\ request.makerAssets[1].type = "Unknown"
  /\ request.takerAssets[1].type = "ERC20"
  /\ response = OpThrew("unsupported operation")
  /\ trace = <<>>

C30_WitnessContact ==
  /\ ValidatedPairRan
  /\ request.adapter = "opensea"
  /\ TradablePair
  /\ Len(trace) = 2
  /\ response.state = "returned"

====
